---- MODULE Spec2Model ----
(***************************************************************************)
(* Model of the transaction pattern analysis of the budget application:    *)
(* the recurring-charge detector (FinancialInsightsEngine and the          *)
(* /insights/subscriptions endpoint), the anomaly detector, the insight    *)
(* synthesizer with its insight store, and the income stream detectors.    *)
(*                                                                         *)
(* Money is kept in integer cents (price 1500 is $15.00), dates are day    *)
(* numbers (day 0 is Monday 2024-01-01), confidences are hundredths        *)
(* (85 is 0.85).  Comparisons the code makes on floats are made on the     *)
(* exact rationals, cross-multiplied.                                      *)
(***************************************************************************)
EXTENDS Integers, Sequences, FiniteSets, TLC

VARIABLES
    transactions,   \* the Transaction table, rows in storage order
    insights,       \* the Insight table, rows in storage order
    fitMemo,        \* per user: the data the outlier detector was last fitted on, and its predictions
    detected,       \* locals and result of the last _detect_subscriptions call
    subsResp,       \* response of the last GET /insights/subscriptions
    anomalyOut,     \* flagged indices and result of the last _detect_anomalies call
    runs,           \* per request slot of POST /insights/generate: its position and data
    plaidResp,      \* status of the last POST /plaid/transaction
    incomeOut,      \* result of the last income analysis
    insightResp,    \* status of the last POST /insights or PUT /insights/{id}/read
    goals,          \* the Goal table, rows in storage order; the id of a row is its position
    forecastOut,    \* result of the last forecast_goal_completion call
    normOut,        \* input and result of the last normalize_merchant_name calls
    bankAccounts,   \* the BankAccount table, rows in storage order
    plaidReqs       \* per request slot of POST /plaid/transaction(s): position and locals

vars == <<transactions, insights, fitMemo, detected, subsResp,
          anomalyOut, runs, plaidResp, incomeOut, insightResp, goals, forecastOut,
          normOut, bankAccounts, plaidReqs>>

----------------------------------------------------------------------------
(* Generic helpers *)

None == "None"

Users == {1, 2}

\* the sum of s[lo..hi]
RECURSIVE SumRange(_, _, _)
SumRange(s, lo, hi) ==
    IF lo > hi THEN 0
    ELSE IF lo = hi THEN s[lo]
    ELSE LET mid == (lo + hi) \div 2
         IN  SumRange(s, lo, mid) + SumRange(s, mid + 1, hi)

SumSeq(s) == SumRange(s, 1, Len(s))

SumSq(s) == SumSeq([i \in 1..Len(s) |-> s[i] * s[i]])

\* the indices of s, in order
Indices(s) == [i \in 1..Len(s) |-> i]

Abs(x) == IF x < 0 THEN -x ELSE x

Min(a, b) == IF a <= b THEN a ELSE b

Max(a, b) == IF a >= b THEN a ELSE b

\* the first n elements of s (Python s[:n])
Take(s, n) == SubSeq(s, 1, Min(n, Len(s)))

\* insertion of x into the ascending sequence s, after equal elements
RECURSIVE InsertSorted(_, _)
InsertSorted(x, s) ==
    IF s = <<>> THEN <<x>>
    ELSE IF x < Head(s) THEN <<x>> \o s
    ELSE <<Head(s)>> \o InsertSorted(x, Tail(s))

\* sorted(dates)
RECURSIVE Sorted(_)
Sorted(s) == IF s = <<>> THEN <<>> ELSE InsertSorted(s[Len(s)], Sorted(SubSeq(s, 1, Len(s) - 1)))

\* num/den rounded to the nearest integer, ties to even (den > 0)
RoundDiv(num, den) ==
    LET q == num \div den
        r == num % den
    IN  IF 2 * r < den THEN q
        ELSE IF 2 * r > den THEN q + 1
        ELSE IF q % 2 = 0 THEN q ELSE q + 1

----------------------------------------------------------------------------
(* Transactions *)

Tx(u, m, p, d, c, a) ==
    [user_id |-> u, merchant_name |-> m, price |-> p, date_of_transaction |-> d,
     category_primary |-> c, category_detailed |-> None, account_id |-> a,
     plaid_transaction_id |-> None]

\* str.lower().strip() on the merchant names of the model
LowerStrip(m) ==
    CASE m = "Netflix" -> "netflix"
      [] m = " NETFLIX " -> "netflix"
      [] m = "Spotify" -> "spotify"
      [] m = "Grocer" -> "grocer"
      [] m = "ACME Corp" -> "acme corp"
      [] m = "acme corp " -> "acme corp"
      [] m = "Acme Corp Payroll" -> "acme corp payroll"
      [] m = "ACME HR" -> "acme hr"
      [] m = "Client Services LLC" -> "client services llc"
      [] m = "Unknown" -> "unknown"
      [] OTHER -> m

\* a select without the where clause
TransactionsOfAll(u) == transactions

\* _get_user_transactions: the rows of one user, in storage order
UserTransactions(u) == SelectSeq(transactions, LAMBDA t : t.user_id = u)

----------------------------------------------------------------------------
(* Recurring charge detection *)

MinSubscriptionTransactions == 30

GrayChargeAmount == 2000

GrayChargeOccurrences == 3

\* trans.merchant_name.lower() raises AttributeError on a missing merchant name
\* of an expense row
RaisesOnMerchant(txs) ==
    \E i \in 1..Len(txs) : txs[i].price > 0 /\ txs[i].merchant_name = None

PatternKey(t) == <<LowerStrip(t.merchant_name), t.price>>

\* keys of recurring_patterns in insertion order (expense rows only): the key
\* of every expense row that no earlier expense row shares
PatternKeys(txs) ==
    LET firsts == SelectSeq(Indices(txs),
                      LAMBDA i : /\ txs[i].price > 0
                                 /\ \A j \in 1..(i - 1) :
                                        ~(txs[j].price > 0 /\ PatternKey(txs[j]) = PatternKey(txs[i])))
    IN  [k \in 1..Len(firsts) |-> PatternKey(txs[firsts[k]])]

\* recurring_patterns[key]: the dates of the expense rows with that key
PatternDates(txs, key) ==
    LET rows == SelectSeq(txs, LAMBDA t : t.price > 0 /\ PatternKey(t) = key)
    IN  [i \in 1..Len(rows) |-> rows[i].date_of_transaction]

\* consecutive day gaps of the sorted dates
Intervals(dates) ==
    LET s == Sorted(dates)
    IN  [i \in 1..(Len(s) - 1) |-> s[i + 1] - s[i]]

\* lo <= np.mean(iv) <= hi
MeanWithin(iv, lo, hi) == lo * Len(iv) <= SumSeq(iv) /\ SumSeq(iv) <= hi * Len(iv)

\* np.std(iv) < bound: the population standard deviation (divisor n)
StdBelow(iv, bound) ==
    Len(iv) * SumSq(iv) - SumSeq(iv) * SumSeq(iv) < bound * bound * Len(iv) * Len(iv)

\* the monthly test with the deviation bound taken inclusively
IsMonthlyInclusive(iv) ==
    /\ MeanWithin(iv, 25, 35)
    /\ Len(iv) * SumSq(iv) - SumSeq(iv) * SumSeq(iv) <= 25 * Len(iv) * Len(iv)

IsMonthly(iv) == MeanWithin(iv, 25, 35) /\ StdBelow(iv, 5)

IsWeekly(iv) == MeanWithin(iv, 6, 8) /\ StdBelow(iv, 2)

IsAnnual(iv) == MeanWithin(iv, 350, 380) /\ StdBelow(iv, 15)

\* the frequency label with a single charge taken as a monthly one
FrequencyOfAny(dates) ==
    IF Len(dates) < 2 THEN "monthly"
    ELSE LET iv == Intervals(dates)
         IN  IF IsMonthly(iv) THEN "monthly"
             ELSE IF IsWeekly(iv) THEN "weekly"
             ELSE IF IsAnnual(iv) THEN "annual"
             ELSE "none"

\* the frequency label, "none" when the series is dropped
Frequency(dates) ==
    IF Len(dates) < 2 THEN "none"
    ELSE LET iv == Intervals(dates)
         IN  IF IsMonthly(iv) THEN "monthly"
             ELSE IF IsWeekly(iv) THEN "weekly"
             ELSE IF IsAnnual(iv) THEN "annual"
             ELSE "none"

ChargeRecord(key, dates) ==
    [merchant |-> key[1], amount |-> key[2], frequency |-> Frequency(dates),
     occurrences |-> Len(dates), total_spent |-> key[2] * Len(dates)]

\* the gray-charge test with the amount bound taken inclusively
IsGrayChargeInclusive(amount, occurrences) ==
    amount <= GrayChargeAmount /\ occurrences >= GrayChargeOccurrences

IsGrayCharge(amount, occurrences) ==
    amount < GrayChargeAmount /\ occurrences >= GrayChargeOccurrences

\* the records of the labelled series, in key order, split by the gray-charge test
ChargeList(txs, keys, gray) ==
    LET kept == SelectSeq(keys,
                    LAMBDA key : /\ Frequency(PatternDates(txs, key)) # "none"
                                 /\ IsGrayCharge(key[2], Len(PatternDates(txs, key))) = gray)
    IN  [k \in 1..Len(kept) |-> ChargeRecord(kept[k], PatternDates(txs, kept[k]))]

Subscriptions(txs) == ChargeList(txs, PatternKeys(txs), FALSE)

GrayCharges(txs) == ChargeList(txs, PatternKeys(txs), TRUE)

\* monthly cost in twelfths of a cent: monthly as is, weekly / 4, annual / 12
TotalMonthly12(subs) ==
    SumSeq([i \in 1..Len(subs) |->
               IF subs[i].frequency = "monthly" THEN 12 * subs[i].amount
               ELSE IF subs[i].frequency = "weekly" THEN 3 * subs[i].amount
               ELSE subs[i].amount])

TotalSpent(recs) == SumSeq([i \in 1..Len(recs) |-> recs[i].total_spent])

MaxListedSubscriptions == 5

MaxListedGrayCharges == 3

\* confidence_score = None (NULL in the table), next to the scores 0..100
NullScore == -1

\* a row built without confidence_score: the column keeps its default, None
InsightUnscored(u, title, message, type, confidence) ==
    [user_id |-> u, title |-> title, message |-> message, insight_type |-> type,
     confidence_score |-> NullScore, is_read |-> FALSE]

Insight(u, title, message, type, confidence) ==
    [user_id |-> u, title |-> title, message |-> message, insight_type |-> type,
     confidence_score |-> confidence, is_read |-> FALSE]

\* the summary with every subscription listed
SubscriptionInsightOfAll(u, subs) ==
    Insight(u, "Active Subscriptions Detected",
            <<Len(subs), RoundDiv(TotalMonthly12(subs), 12),
              [i \in 1..Len(subs) |->
                  <<subs[i].merchant, subs[i].amount, subs[i].frequency>>]>>,
            "subscription_summary", 90)

\* the values interpolated into the message take the place of the text
SubscriptionInsight(u, subs) ==
    Insight(u, "Active Subscriptions Detected",
            <<Len(subs), RoundDiv(TotalMonthly12(subs), 12),
              [i \in 1..Min(MaxListedSubscriptions, Len(subs)) |->
                  <<subs[i].merchant, subs[i].amount, subs[i].frequency>>]>>,
            "subscription_summary", 90)

GrayChargeInsight(u, gray) ==
    Insight(u, "Potential Forgotten Subscriptions",
            <<Len(gray), TotalSpent(gray),
              [i \in 1..Min(MaxListedGrayCharges, Len(gray)) |->
                  <<gray[i].merchant, gray[i].amount, gray[i].frequency, gray[i].total_spent>>]>>,
            "gray_charges", 85)

\* FinancialInsightsEngine._detect_subscriptions: its locals and its result
DetectSubscriptions(txs, u) ==
    IF Len(txs) < MinSubscriptionTransactions
    THEN [status |-> "ok", user |-> u, count |-> Len(txs), subscriptions |-> <<>>,
          gray_charges |-> <<>>, insights |-> <<>>]
    ELSE IF RaisesOnMerchant(txs)
    THEN [status |-> "error", user |-> u, count |-> Len(txs), subscriptions |-> <<>>,
          gray_charges |-> <<>>, insights |-> <<>>]
    ELSE LET subs == Subscriptions(txs)
             gray == GrayCharges(txs)
         IN  [status |-> "ok", user |-> u, count |-> Len(txs), subscriptions |-> subs,
              gray_charges |-> gray,
              insights |-> (IF subs # <<>> THEN <<SubscriptionInsight(u, subs)>> ELSE <<>>)
                           \o (IF gray # <<>> THEN <<GrayChargeInsight(u, gray)>> ELSE <<>>)]

\* GET /insights/subscriptions
SubscriptionAnalysis(txs, u) ==
    IF txs = <<>>
    THEN [status |-> 200, user |-> u, count |-> 0, subscriptions |-> <<>>,
          gray_charges |-> <<>>, total_monthly |-> 0]
    ELSE IF RaisesOnMerchant(txs)
    THEN [status |-> 500, user |-> u, count |-> Len(txs), subscriptions |-> <<>>,
          gray_charges |-> <<>>, total_monthly |-> 0]
    ELSE [status |-> 200, user |-> u, count |-> Len(txs),
          subscriptions |-> Subscriptions(txs), gray_charges |-> GrayCharges(txs),
          total_monthly |-> TotalMonthly12(Subscriptions(txs))]

Idle == [status |-> "idle"]

\* no HTTP response yet
NoResponse == [status |-> 0]

\* no income analysis yet
NoIncome == [call |-> "none"]

\* no goal forecast yet
NoForecast == [call |-> "none"]

\* normalize_merchant_name has not been called
NoName == [call |-> "none"]

\* a direct call of _detect_subscriptions on the rows of user u
CallDetectSubscriptions(u) ==
    /\ detected' = DetectSubscriptions(UserTransactions(u), u)
    /\ UNCHANGED <<transactions, insights, fitMemo, subsResp, anomalyOut,
                   runs, plaidResp, incomeOut,
                   insightResp, goals, forecastOut, normOut, bankAccounts, plaidReqs>>

GetSubscriptionAnalysis(u) ==
    /\ subsResp' = SubscriptionAnalysis(UserTransactions(u), u)
    /\ UNCHANGED <<transactions, insights, fitMemo, detected, anomalyOut,
                   runs, plaidResp, incomeOut,
                   insightResp, goals, forecastOut, normOut, bankAccounts, plaidReqs>>

----------------------------------------------------------------------------
(* Anomaly detection *)

MinAnomalyTransactions == 10

MaxAnomalyInsights == 3

AnomalyConfidence == 85

\* date.weekday(): day 0 is a Monday
Weekday(d) == d % 7

\* _transactions_to_dataframe: the merchant_name column
FrameMerchant(t) == IF t.merchant_name = None THEN "Unknown" ELSE t.merchant_name

\* _get_merchant_frequency, as the pair <<count, rows>>
MerchantFrequency(m, txs) ==
    <<Cardinality({i \in 1..Len(txs) : FrameMerchant(txs[i]) = m}), Len(txs)>>

\* the category mentions of one row
CategoryMentions(t) ==
    (IF t.category_primary # None THEN 1 ELSE 0)
    + (IF t.category_detailed # None /\ t.category_detailed # t.category_primary THEN 1 ELSE 0)

\* _get_category_frequency of [category_primary], as the pair <<count, mentions>>
CategoryFrequency(c, txs) ==
    LET mentions == SumSeq([i \in 1..Len(txs) |-> CategoryMentions(txs[i])])
        hits == Cardinality({i \in 1..Len(txs) : txs[i].category_primary = c})
               + Cardinality({i \in 1..Len(txs) :
                                 /\ txs[i].category_detailed = c
                                 /\ txs[i].category_detailed # txs[i].category_primary})
    IN  IF c = None \/ mentions = 0 THEN <<0, 1>> ELSE <<hits, mentions>>

\* the feature rows handed to the scaler and the outlier detector
Features(txs) ==
    [i \in 1..Len(txs) |->
        <<txs[i].price, Weekday(txs[i].date_of_transaction), 12,
          MerchantFrequency(FrameMerchant(txs[i]), txs),
          CategoryFrequency(txs[i].category_primary, txs)>>]

MaxFlagged == 4

MaxFlaggedRow == 4

\* the predictions IsolationForest.fit_predict may give n rows: the set of
\* rows marked -1, here at most MaxFlagged of the first MaxFlaggedRow rows
Predictions(n) ==
    {f \in SUBSET (1..Min(n, MaxFlaggedRow)) : Cardinality(f) <= MaxFlagged}

\* random_state is a fixed integer: fitting the same data again gives the
\* same predictions
SeededFit(memo, data, pred) ==
    (memo.status = "fitted" /\ memo.data = data) => pred = memo.pred

\* the fit with random_state left unset: every fit draws anew
UnseededFit(memo, data, pred) == TRUE

FitPredict(memo, data, pred) == SeededFit(memo, data, pred)

\* the set f as the ascending sequence of its elements
RECURSIVE Ascending(_)
Ascending(f) ==
    IF f = {} THEN <<>>
    ELSE LET m == CHOOSE x \in f : \A y \in f : x <= y
         IN  <<m>> \o Ascending(f \ {m})

\* abs(float(transaction.price)) > abs(float(df['price'].mean())) * 2
IsHighAmount(t, txs) ==
    Abs(t.price) * Len(txs) > 2 * Abs(SumSeq([i \in 1..Len(txs) |-> txs[i].price]))

\* transaction_amount / avg_amount_abs if avg_amount_abs > 0 else 1, in tenths
Multiplier(t, txs) ==
    LET total == Abs(SumSeq([i \in 1..Len(txs) |-> txs[i].price]))
    IN  IF total > 0 THEN RoundDiv(10 * Abs(t.price) * Len(txs), total) ELSE 10

AnomalyInsight(t, txs, u) ==
    IF IsHighAmount(t, txs)
    THEN Insight(u, "Unusual Transaction Alert",
                 <<Abs(t.price), t.merchant_name, t.date_of_transaction, Multiplier(t, txs)>>,
                 "anomaly_high_amount", AnomalyConfidence)
    ELSE Insight(u, "Unusual Transaction Alert",
                 <<Abs(t.price), t.merchant_name>>,
                 "anomaly_pattern", AnomalyConfidence)

\* one insight per flagged row, in row order
AllAnomalyInsights(txs, u, flagged) ==
    LET idx == Ascending(flagged)
    IN  [k \in 1..Len(idx) |-> AnomalyInsight(txs[idx[k]], txs, u)]

\* the result of _detect_anomalies without the final slice
UnlimitedAnomalies(txs, u, flagged) ==
    IF Len(txs) < MinAnomalyTransactions THEN <<>>
    ELSE AllAnomalyInsights(txs, u, flagged)

\* FinancialInsightsEngine._detect_anomalies, given the predictions of the fit
DetectAnomalies(txs, u, flagged) ==
    IF Len(txs) < MinAnomalyTransactions THEN <<>>
    ELSE Take(AllAnomalyInsights(txs, u, flagged), MaxAnomalyInsights)

\* a direct call of _detect_anomalies on the rows of user u
CallDetectAnomalies(u) ==
    LET txs == UserTransactions(u)
    IN  IF Len(txs) < MinAnomalyTransactions
        THEN /\ anomalyOut' = [status |-> "ok", user |-> u, count |-> Len(txs),
                               fitted |-> FALSE, flagged |-> <<>>,
                               insights |-> DetectAnomalies(txs, u, {})]
             /\ UNCHANGED <<transactions, insights, fitMemo, detected,
                            subsResp, runs, plaidResp, incomeOut,
                            insightResp, goals, forecastOut, normOut, bankAccounts, plaidReqs>>
        ELSE \E flagged \in Predictions(Len(txs)) :
                /\ FitPredict(fitMemo[u], Features(txs), flagged)
                /\ fitMemo' = [fitMemo EXCEPT ![u] =
                                  [status |-> "fitted", data |-> Features(txs),
                                   pred |-> flagged]]
                /\ anomalyOut' = [status |-> "ok", user |-> u, count |-> Len(txs),
                                  fitted |-> TRUE, flagged |-> Ascending(flagged),
                                  insights |-> DetectAnomalies(txs, u, flagged)]
                /\ UNCHANGED <<transactions, insights, detected, subsResp, runs,
                               plaidResp, incomeOut,
                               insightResp, goals, forecastOut, normOut, bankAccounts,
                               plaidReqs>>

----------------------------------------------------------------------------
(* Spending patterns *)

\* the first day of each month within a year, and the year's length
MonthStarts(leap) ==
    IF leap THEN <<0, 31, 60, 91, 121, 152, 182, 213, 244, 274, 305, 335, 366>>
    ELSE <<0, 31, 59, 90, 120, 151, 181, 212, 243, 273, 304, 334, 365>>

\* dt.to_period('M') of a day number: the months since January 2024, for the
\* days of 2024 (a leap year) to 2027
MonthOf(d) ==
    LET year == IF d < 366 THEN 0 ELSE 1 + (d - 366) \div 365
        day == IF d < 366 THEN d ELSE (d - 366) % 365
        starts == MonthStarts(year = 0)
    IN  12 * year + (CHOOSE m \in 0..11 : starts[m + 1] <= day /\ day < starts[m + 2])

\* df[df['price'] > 0]
Expenses(txs) == SelectSeq(txs, LAMBDA t : t.price > 0)

\* monthly_spending: the totals of the months that have expenses, by month
MonthlySpending(ex) ==
    LET months == {MonthOf(ex[i].date_of_transaction) : i \in 1..Len(ex)}
        ordered == Ascending(months)
    IN  [k \in 1..Len(ordered) |->
            SumSeq([i \in 1..Len(ex) |->
                      IF MonthOf(ex[i].date_of_transaction) = ordered[k]
                      THEN ex[i].price ELSE 0])]

\* previous_month * 1.3 and previous_month * 0.8 are products of doubles: for
\* these totals of the model the first is smaller than thirteen tenths of the
\* total ($501.40 * 1.3 gives 651.8199999999999), the second larger than
\* eight tenths of it ($500.10 * 0.8 gives 400.08000000000004)
ProductRoundsBelow(previous) == previous \in {50140}

ProductRoundsAbove(previous) == previous \in {50010}

\* recent_month > previous_month * 1.3
ExceedsIncreaseThreshold(recent, previous) ==
    \/ 10 * recent > 13 * previous
    \/ 10 * recent = 13 * previous /\ ProductRoundsBelow(previous)

\* recent_month < previous_month * 0.8
BelowDecreaseThreshold(recent, previous) ==
    \/ 10 * recent < 8 * previous
    \/ 10 * recent = 8 * previous /\ ProductRoundsAbove(previous)

\* the month-over-month alert, if any
TrendInsights(ex, u) ==
    LET ms == MonthlySpending(ex)
        recent == ms[Len(ms)]
        previous == ms[Len(ms) - 1]
    IN  IF Len(ms) < 2 THEN <<>>
        ELSE IF ExceedsIncreaseThreshold(recent, previous)
        THEN <<Insight(u, "Spending Increase Alert",
                       <<RoundDiv((recent - previous) * 1000, previous), recent, previous>>,
                       "spending_increase", 95)>>
        ELSE IF BelowDecreaseThreshold(recent, previous)
        THEN <<Insight(u, "Great Job Saving!",
                       <<RoundDiv((previous - recent) * 1000, previous), previous - recent>>,
                       "spending_decrease", 95)>>
        ELSE <<>>

IsWeekend(t) == Weekday(t.date_of_transaction) \in {5, 6}

\* the weekend against weekday comparison: spend per expense row
WeekendInsights(ex, u) ==
    LET weekendRows == SelectSeq(ex, IsWeekend)
        weekdayRows == SelectSeq(ex, LAMBDA t : ~IsWeekend(t))
        weekend_spending == SumSeq([i \in 1..Len(weekendRows) |-> weekendRows[i].price])
        weekday_spending == SumSeq([i \in 1..Len(weekdayRows) |-> weekdayRows[i].price])
        weekend_days == Len(weekendRows)
        weekday_days == Len(weekdayRows)
    IN  IF weekend_days > 0 /\ weekday_days > 0
           /\ 2 * weekend_spending * weekday_days > 3 * weekday_spending * weekend_days
        THEN <<Insight(u, "Weekend Spending Pattern",
                       <<RoundDiv(10 * weekend_spending * weekday_days,
                                  weekday_spending * weekend_days),
                         RoundDiv(weekend_spending, weekend_days),
                         RoundDiv(weekday_spending, weekday_days)>>,
                       "weekend_spending", 80)>>
        ELSE <<>>

\* FinancialInsightsEngine._analyze_spending_patterns
AnalyzeSpendingPatterns(txs, u) ==
    LET ex == Expenses(txs)
    IN  IF ex = <<>> THEN <<>>
        ELSE TrendInsights(ex, u) \o WeekendInsights(ex, u)

----------------------------------------------------------------------------
(* Category spending *)

\* format_category_name on the categories of the model
FormatCategoryName(c) ==
    CASE c = "FOOD_AND_DRINK" -> "Food And Drink"
      [] c = "TRANSPORTATION" -> "Transportation"
      [] c = "GENERAL_SERVICES" -> "General Services"
      [] c = "GENERAL_MERCHANDISE" -> "General Merchandise"
      [] c = "COFFEE_SHOPS" -> "Coffee Shops"
      [] c = "FOOD_DELIVERY" -> "Food Delivery"
      [] c = "INCOME" -> "Income"
      [] OTHER -> c

\* any(keyword in category.lower() ...) on the categories of the model
IsCoffeeCategory(c) == c = "COFFEE_SHOPS"

IsDeliveryCategory(c) == c = "FOOD_DELIVERY"

\* trans.category_primary or trans.category_detailed
SpendingCategory(t) ==
    IF t.category_primary # None THEN t.category_primary ELSE t.category_detailed

\* keys of category_spending in insertion order
CategoryKeys(txs) ==
    LET firsts == SelectSeq(Indices(txs),
                      LAMBDA i : /\ SpendingCategory(txs[i]) # None
                                 /\ \A j \in 1..(i - 1) :
                                        SpendingCategory(txs[j]) # SpendingCategory(txs[i]))
    IN  [k \in 1..Len(firsts) |-> SpendingCategory(txs[firsts[k]])]

CategorySpending(txs, c) ==
    SumSeq([i \in 1..Len(txs) |-> IF SpendingCategory(txs[i]) = c THEN Abs(txs[i].price) ELSE 0])

\* insertion of the pair x into a sequence descending by amount, after equal amounts
RECURSIVE InsertByAmount(_, _)
InsertByAmount(x, s) ==
    IF s = <<>> THEN <<x>>
    ELSE IF x[2] > Head(s)[2] THEN <<x>> \o s
    ELSE <<Head(s)>> \o InsertByAmount(x, Tail(s))

\* sorted(category_spending.items(), key amount, reverse=True)
RECURSIVE SortedByAmount(_)
SortedByAmount(pairs) ==
    IF pairs = <<>> THEN <<>>
    ELSE InsertByAmount(pairs[Len(pairs)], SortedByAmount(SubSeq(pairs, 1, Len(pairs) - 1)))

SortedCategories(txs) ==
    LET keys == CategoryKeys(txs)
    IN  SortedByAmount([i \in 1..Len(keys) |-> <<keys[i], CategorySpending(txs, keys[i])>>])

TotalCategorySpending(txs) ==
    LET sc == SortedCategories(txs) IN SumSeq([i \in 1..Len(sc) |-> sc[i][2]])

\* (top_3_total / total_spending) divides by zero when nothing was spent
CategoryRaises(txs) ==
    Len(SortedCategories(txs)) >= 3 /\ TotalCategorySpending(txs) = 0

TopCategoriesInsights(txs, u) ==
    LET sc == SortedCategories(txs)
        total == TotalCategorySpending(txs)
        top == Take(sc, 3)
    IN  IF Len(sc) >= 3
        THEN <<Insight(u, "Top Spending Categories",
                       <<RoundDiv(1000 * SumSeq([i \in 1..3 |-> top[i][2]]), total),
                         [i \in 1..3 |-> <<FormatCategoryName(top[i][1]), top[i][2],
                                           RoundDiv(1000 * top[i][2], total)>>]>>,
                       "category_analysis", 90)>>
        ELSE <<>>

\* the first of the top 5 categories that is a coffee or a delivery category
RECURSIVE SpecificCategoryInsights(_, _)
SpecificCategoryInsights(cats, u) ==
    IF cats = <<>> THEN <<>>
    ELSE LET c == Head(cats)[1]
             amount == Head(cats)[2]
         IN  IF IsCoffeeCategory(c)
             THEN <<Insight(u, "Coffee Spending Analysis",
                            <<amount, amount * 12, RoundDiv(amount * 12 * 7, 10)>>,
                            "coffee_spending", 85)>>
             ELSE IF IsDeliveryCategory(c)
             THEN <<Insight(u, "Food Delivery Savings Opportunity",
                            <<amount, RoundDiv(amount * 3, 10)>>,
                            "delivery_spending", 80)>>
             ELSE SpecificCategoryInsights(Tail(cats), u)

\* FinancialInsightsEngine._analyze_category_spending (when it does not raise)
AnalyzeCategorySpending(txs, u) ==
    IF SortedCategories(txs) = <<>> THEN <<>>
    ELSE Take(TopCategoriesInsights(txs, u)
              \o SpecificCategoryInsights(Take(SortedCategories(txs), 5), u), 3)

----------------------------------------------------------------------------
(* The insight synthesizer and its endpoint *)

\* the insights generate_user_insights collects, given the predictions of the fit
CollectInsights(txs, u, flagged) ==
    AnalyzeSpendingPatterns(txs, u)
    \o DetectAnomalies(txs, u, flagged)
    \o DetectSubscriptions(txs, u).insights
    \o AnalyzeCategorySpending(txs, u)

\* an exception leaves generate_user_insights before anything is saved
EngineRaises(txs) ==
    \/ DetectSubscriptions(txs, 0).status = "error"
    \/ CategoryRaises(txs)

\* what a run hands to the session: nothing without transactions
EngineInsights(txs, u, flagged) ==
    IF txs = <<>> THEN <<>> ELSE CollectInsights(txs, u, flagged)

\* the two requests of POST /insights/generate that are followed
Requests == {1, 2}

\* a session that skips the insights the table holds already
SessionAddNew(table, out) ==
    table \o SelectSeq(out, LAMBDA x : \A i \in 1..Len(table) : table[i] # x)

\* session.add of every insight, and the commit
SessionAddAll(table, out) == table \o out

\* POST /insights/generate, first step: the engine reads the rows of the user
\* and computes its insights
StartGenerate(r, u) ==
    LET txs == UserTransactions(u)
    IN  /\ runs[r].pc = "idle"
        /\ \E flagged \in Predictions(Len(txs)) :
              /\ IF Len(txs) >= MinAnomalyTransactions
                 THEN /\ FitPredict(fitMemo[u], Features(txs), flagged)
                      /\ fitMemo' = [fitMemo EXCEPT ![u] =
                                        [status |-> "fitted", data |-> Features(txs),
                                         pred |-> flagged]]
                 ELSE /\ flagged = {}
                      /\ UNCHANGED fitMemo
              /\ runs' = [runs EXCEPT ![r] =
                            IF EngineRaises(txs)
                            THEN [pc |-> "done", user |-> u, data |-> txs, status |-> 500,
                                  out |-> <<>>]
                            ELSE [pc |-> "computed", user |-> u, data |-> txs, status |-> 0,
                                  out |-> EngineInsights(txs, u, flagged)]]
        /\ UNCHANGED <<transactions, insights, detected, subsResp, anomalyOut, plaidResp,
                       incomeOut,
                       insightResp, goals, forecastOut, normOut, bankAccounts, plaidReqs>>

\* second step: session.add of every insight, commit, and the response
CommitGenerate(r) ==
    /\ runs[r].pc = "computed"
    /\ insights' = SessionAddAll(insights, runs[r].out)
    /\ runs' = [runs EXCEPT ![r].pc = "done", ![r].status = 200]
    /\ UNCHANGED <<transactions, fitMemo, detected, subsResp, anomalyOut, plaidResp,
                   incomeOut,
                   insightResp, goals, forecastOut, normOut, bankAccounts, plaidReqs>>

\* the bodies POST /plaid/transaction is called with
PlaidBodies ==
    { [transaction_id |-> "p1", merchant_name |-> "Netflix", amount |-> 2500, date |-> 100,
       primary |-> "GENERAL_SERVICES", account_id |-> "acct1"] }

\* POST /plaid/transaction: 400 when the transaction id is stored already
AddPlaidTransaction(u, body) ==
    /\ IF \E i \in 1..Len(transactions) :
             transactions[i].plaid_transaction_id = body.transaction_id
       THEN /\ plaidResp' = 400
            /\ UNCHANGED transactions
       ELSE /\ plaidResp' = 200
            /\ transactions' = Append(transactions,
                   [Tx(u, body.merchant_name, body.amount, body.date, body.primary,
                       body.account_id) EXCEPT !.plaid_transaction_id = body.transaction_id])
    /\ UNCHANGED <<insights, fitMemo, detected, subsResp, anomalyOut, runs, incomeOut,
                   insightResp, goals, forecastOut, normOut, bankAccounts, plaidReqs>>

----------------------------------------------------------------------------
(* Income stream detection: the definition of _analyze_income_patterns that *)
(* is bound when the endpoints run (the second one of main.py)              *)

\* abs(trans.price) < 50, in cents
MinIncomeAmount == 5000

\* amount >= 1000, in dollars
SalaryAmount == 1000

\* monthly_income >= 200, in dollars
MinMonthlyIncome == 200

\* confidence >= 0.5
MinIncomeConfidence == 50

\* str.title() on the lowered merchant names of the model
Title(m) ==
    CASE m = "acme corp" -> "Acme Corp"
      [] m = "acme corp payroll" -> "Acme Corp Payroll"
      [] m = "acme hr" -> "Acme Hr"
      [] m = "client services llc" -> "Client Services Llc"
      [] m = "unknown" -> "Unknown"
      [] OTHER -> m

\* the rows the grouping loop does not skip
IsIncomeRow(t) == Abs(t.price) >= MinIncomeAmount

\* trans.merchant_name.lower() raises AttributeError on a missing merchant name
\* of a row that is not skipped
IncomeRaises(txs) ==
    \E i \in 1..Len(txs) : IsIncomeRow(txs[i]) /\ txs[i].merchant_name = None

\* round(float(abs(trans.price)), 0): whole dollars, ties to even
RoundedAmount(p) == RoundDiv(Abs(p), 100)

IncomeKey(t) == <<LowerStrip(t.merchant_name), RoundedAmount(t.price), t.account_id>>

\* keys of income_groups in insertion order
IncomeKeys(txs) ==
    LET firsts == SelectSeq(Indices(txs),
                      LAMBDA i : /\ IsIncomeRow(txs[i])
                                 /\ \A j \in 1..(i - 1) :
                                        ~(IsIncomeRow(txs[j]) /\ IncomeKey(txs[j]) = IncomeKey(txs[i])))
    IN  [k \in 1..Len(firsts) |-> IncomeKey(txs[firsts[k]])]

\* income_groups[key]: the dates of its rows
IncomeDates(txs, key) ==
    LET rows == SelectSeq(txs, LAMBDA t : IsIncomeRow(t) /\ IncomeKey(t) = key)
    IN  [i \in 1..Len(rows) |-> rows[i].date_of_transaction]

\* the monthly range of the mean interval taken as 28..32
IncomeFrequencyNarrow(iv) ==
    LET s == SumSeq(iv)
        n == Len(iv)
    IN  IF s <= 35 * n
        THEN IF 28 * n <= s /\ s <= 32 * n THEN "monthly"
             ELSE IF 12 * n <= s /\ s <= 16 * n THEN "bi-weekly"
             ELSE IF 6 * n <= s /\ s <= 8 * n THEN "weekly"
             ELSE "irregular"
        ELSE IF s <= 95 * n THEN "quarterly"
        ELSE "irregular"

\* the frequency label from avg_interval = s / n
IncomeFrequency(iv) ==
    LET s == SumSeq(iv)
        n == Len(iv)
    IN  IF s <= 35 * n
        THEN IF 25 * n <= s THEN "monthly"
             ELSE IF 12 * n <= s /\ s <= 16 * n THEN "bi-weekly"
             ELSE IF 6 * n <= s /\ s <= 8 * n THEN "weekly"
             ELSE "irregular"
        ELSE IF s <= 95 * n THEN "quarterly"
        ELSE "irregular"

IncomeConfidence(f) ==
    CASE f = "monthly" -> 80
      [] f = "bi-weekly" -> 90
      [] f = "weekly" -> 70
      [] f = "quarterly" -> 60
      [] OTHER -> 0

\* the salary boost without its cap
UncappedConfidence(confidence, amount) ==
    IF amount >= SalaryAmount THEN confidence + 20 ELSE confidence

\* min(confidence + 0.2, 1.0) for amount >= 1000
BoostedConfidence(confidence, amount) ==
    IF amount >= SalaryAmount THEN Min(confidence + 20, 100) ELSE confidence

\* two pay periods a month for a bi-weekly stream
MonthlyIncomeTwoPeriods(f, amount, iv) ==
    CASE f = "weekly" -> 433 * amount
      [] f = "bi-weekly" -> 200 * amount
      [] f = "monthly" -> 100 * amount
      [] f = "quarterly" -> RoundDiv(100 * amount, 3)
      [] OTHER -> IF SumSeq(iv) > 0 THEN RoundDiv(3000 * amount * Len(iv), SumSeq(iv)) ELSE 0

\* round(monthly_income, 2) in cents, amount being whole dollars
MonthlyIncome(f, amount, iv) ==
    CASE f = "weekly" -> 433 * amount
      [] f = "bi-weekly" -> 217 * amount
      [] f = "monthly" -> 100 * amount
      [] f = "quarterly" -> RoundDiv(100 * amount, 3)
      [] OTHER -> IF SumSeq(iv) > 0 THEN RoundDiv(3000 * amount * Len(iv), SumSeq(iv)) ELSE 0

\* monthly_income >= 200 on the unrounded value
AboveFloor(f, amount, iv) ==
    CASE f = "weekly" -> 433 * amount >= 100 * MinMonthlyIncome
      [] f = "bi-weekly" -> 217 * amount >= 100 * MinMonthlyIncome
      [] f = "monthly" -> amount >= MinMonthlyIncome
      [] f = "quarterly" -> amount >= 3 * MinMonthlyIncome
      [] OTHER -> SumSeq(iv) > 0 /\ 30 * amount * Len(iv) >= MinMonthlyIncome * SumSeq(iv)

\* account_lookup.get(account_id, "Unknown Account")
AccountName(accounts, id) ==
    IF \E a \in accounts : a.plaid_account_id = id
    THEN (CHOOSE a \in accounts : a.plaid_account_id = id).account_name
    ELSE "Unknown Account"

\* whether the group of the key is appended to income_streams
IsReported(key, dates) ==
    /\ Len(dates) >= 2
    /\ LET iv == Intervals(dates)
           f == IncomeFrequency(iv)
       IN  /\ BoostedConfidence(IncomeConfidence(f), key[2]) >= MinIncomeConfidence
           /\ AboveFloor(f, key[2], iv)

IncomeStream(key, dates, accounts) ==
    LET iv == Intervals(dates)
        f == IncomeFrequency(iv)
    IN  [account_id |-> key[3],
         account_name |-> AccountName(accounts, key[3]),
         name |-> IF key[1] # "unknown" THEN Title(key[1]) ELSE "Regular Deposit",
         monthly_income |-> MonthlyIncome(f, key[2], iv),
         confidence |-> BoostedConfidence(IncomeConfidence(f), key[2]),
         days_available |-> SumSeq(iv),
         frequency |-> f]

\* list.sort(key = monthly_income, reverse = True): descending, equal
\* elements stay in their order
RECURSIVE InsertByIncome(_, _)
InsertByIncome(x, s) ==
    IF s = <<>> THEN <<x>>
    ELSE IF x.monthly_income > Head(s).monthly_income THEN <<x>> \o s
    ELSE <<Head(s)>> \o InsertByIncome(x, Tail(s))

\* the list as it was appended, without the sort
InAppendOrder(s) == s

RECURSIVE SortedByIncome(_)
SortedByIncome(s) ==
    IF s = <<>> THEN <<>>
    ELSE InsertByIncome(s[Len(s)], SortedByIncome(SubSeq(s, 1, Len(s) - 1)))

\* _analyze_income_patterns (second definition) on rows none of which raises
AnalyzeIncomePatterns(txs, accounts) ==
    LET kept == SelectSeq(IncomeKeys(txs), LAMBDA key : IsReported(key, IncomeDates(txs, key)))
    IN  SortedByIncome([k \in 1..Len(kept) |->
                           IncomeStream(kept[k], IncomeDates(txs, kept[k]), accounts)])

\* income_groups[key] of the keys that are reported, in the order of the
\* returned streams: the trans_list behind each stream
IncomeTransLists(txs, accounts) ==
    LET kept == SelectSeq(IncomeKeys(txs), LAMBDA key : IsReported(key, IncomeDates(txs, key)))
        tagged == SortedByIncome([k \in 1..Len(kept) |->
                      [monthly_income |->
                           IncomeStream(kept[k], IncomeDates(txs, kept[k]), accounts).monthly_income,
                       trans_list |->
                           SelectSeq(txs, LAMBDA t : IsIncomeRow(t) /\ IncomeKey(t) = kept[k])]])
    IN  [k \in 1..Len(tagged) |-> tagged[k].trans_list]

\* order_by(date_of_transaction.desc()); rows of one date stay in storage order
RECURSIVE InsertByDateDesc(_, _)
InsertByDateDesc(t, s) ==
    IF s = <<>> THEN <<t>>
    ELSE IF t.date_of_transaction > Head(s).date_of_transaction THEN <<t>> \o s
    ELSE <<Head(s)>> \o InsertByDateDesc(t, Tail(s))

RECURSIVE DateDescending(_)
DateDescending(s) ==
    IF s = <<>> THEN <<>>
    ELSE InsertByDateDesc(s[Len(s)], DateDescending(SubSeq(s, 1, Len(s) - 1)))

\* the query without its price filter
AllRowsLatestFirst(txs) == DateDescending(txs)

\* the query of the income endpoints: the rows with price < 0, latest first
Deposits(txs) == DateDescending(SelectSeq(txs, LAMBDA t : t.price < 0))

\* the mock_accounts of POST /income/analysis
MockAccounts == {[plaid_account_id |-> "general_account", account_name |-> "Account"]}

TotalMonthlyIncome(streams) == SumSeq([i \in 1..Len(streams) |-> streams[i].monthly_income])

\* POST /income/analysis on the rows of user u
IncomeAnalysis(txs, u) ==
    LET dep == Deposits(txs)
    IN  IF dep = <<>>
        THEN [call |-> "endpoint", status |-> 200, user |-> u, count |-> 0,
              income_streams |-> <<>>, trans_lists |-> <<>>,
              total_monthly_income |-> 0, stream_count |-> 0]
        ELSE IF IncomeRaises(dep)
        THEN [call |-> "endpoint", status |-> 500, user |-> u, count |-> Len(dep),
              income_streams |-> <<>>, trans_lists |-> <<>>,
              total_monthly_income |-> 0, stream_count |-> 0]
        ELSE LET streams == AnalyzeIncomePatterns(dep, MockAccounts)
             IN  [call |-> "endpoint", status |-> 200, user |-> u, count |-> Len(dep),
                  income_streams |-> streams,
                  trans_lists |-> IncomeTransLists(dep, MockAccounts),
                  total_monthly_income |-> TotalMonthlyIncome(streams),
                  stream_count |-> Len(streams)]

PostIncomeAnalysis(u) ==
    /\ incomeOut' = IncomeAnalysis(UserTransactions(u), u)
    /\ UNCHANGED <<transactions, insights, fitMemo, detected, subsResp, anomalyOut,
                   runs, plaidResp,
                   insightResp, goals, forecastOut, normOut, bankAccounts, plaidReqs>>

----------------------------------------------------------------------------
(* Income stream detection: the first definition of _analyze_income_patterns *)
(* of main.py (fuzzy merchant clusters), which the second one replaces at    *)
(* import time                                                               *)

\* transaction.merchant_name or "Unknown"
RawName(t) == IF t.merchant_name = None THEN "Unknown" ELSE t.merchant_name

\* normalize_merchant_name on the merchant names of the model: lowered, the
\* suffix words (corp, llc, payroll, ...) and the punctuation removed
NormalizeMerchantName(m) ==
    CASE m = "ACME Corp" -> "acme"
      [] m = "Acme Corp Payroll" -> "acme"
      [] m = "ACME HR" -> "acme hr"
      [] m = "Client Services LLC" -> "client services"
      [] m = "Unknown" -> "unknown"
      [] OTHER -> m

\* len() of the normalized names
NameLen(n) ==
    CASE n = "acme" -> 4
      [] n = "acme hr" -> 7
      [] n = "client services" -> 15
      [] n = "unknown" -> 7
      [] OTHER -> 0

\* the characters in the matching blocks SequenceMatcher finds for two
\* normalized names
MatchingChars(n1, n2) ==
    IF n1 = n2 THEN NameLen(n1)
    ELSE CASE {n1, n2} = {"acme", "acme hr"} -> 4
           [] {n1, n2} = {"acme", "client services"} -> 2
           [] {n1, n2} = {"acme hr", "client services"} -> 4
           [] {n1, n2} = {"client services", "unknown"} -> 1
           [] OTHER -> 0

\* SequenceMatcher(None, norm1, norm2).ratio() >= tenths / 10, the ratio
\* being 2 * matches / (len(norm1) + len(norm2))
NameSimilarityAtLeast(m1, m2, tenths) ==
    LET n1 == NormalizeMerchantName(m1)
        n2 == NormalizeMerchantName(m2)
    IN  20 * MatchingChars(n1, n2) >= tenths * (NameLen(n1) + NameLen(n2))

SumAbs(rows) == SumSeq([i \in 1..Len(rows) |-> Abs(rows[i].price)])

\* abs(amount1 - amount2) / max(amount1, amount2) <= 0.1 on the mean amounts
\* of two row lists
AmountSimilar(rows1, rows2) ==
    LET a == SumAbs(rows1) * Len(rows2)
        b == SumAbs(rows2) * Len(rows1)
    IN  10 * Abs(a - b) <= Max(a, b)

\* are_similar_sources
AreSimilarSources(m1, m2, rows1, rows2) ==
    \/ NameSimilarityAtLeast(m1, m2, 8)
    \/ NameSimilarityAtLeast(m1, m2, 6) /\ AmountSimilar(rows1, rows2)

\* keys of merchant_groups in insertion order
MerchantNames(txs) ==
    LET firsts == SelectSeq(Indices(txs),
                      LAMBDA i : \A j \in 1..(i - 1) : RawName(txs[j]) # RawName(txs[i]))
    IN  [k \in 1..Len(firsts) |-> RawName(txs[firsts[k]])]

\* merchant_groups after the grouping loop
MerchantGroups(txs) ==
    LET names == MerchantNames(txs)
    IN  [m \in {names[k] : k \in 1..Len(names)} |->
            SelectSeq(txs, LAMBDA t : RawName(t) = m)]

\* the loop that prefers the shorter normalized name among the similar merchants
RECURSIVE CleanName(_, _, _, _)
CleanName(groups, m, rest, clean) ==
    IF rest = <<>> THEN clean
    ELSE LET other == Head(rest)
         IN  IF /\ other # m
                /\ Len(groups[other]) >= 2
                /\ AreSimilarSources(m, other, groups[m], groups[other])
                /\ NameLen(NormalizeMerchantName(other)) < NameLen(NormalizeMerchantName(clean))
             THEN CleanName(groups, m, Tail(rest), other)
             ELSE CleanName(groups, m, Tail(rest), clean)

\* merged_groups[name] = the list object of merchant owner; an existing key
\* keeps its place
DictSet(merged, name, owner) ==
    IF \E i \in 1..Len(merged) : merged[i].name = name
    THEN [i \in 1..Len(merged) |->
             IF merged[i].name = name THEN [name |-> name, owner |-> owner] ELSE merged[i]]
    ELSE Append(merged, [name |-> name, owner |-> owner])

\* the merge loop over the merchants still to visit.  merged_groups holds the
\* list objects of merchant_groups, so that extending a merged group extends
\* the list of the merchant that opened it: groups maps each merchant to its
\* list, merged names the owner of the list of each merged group
RECURSIVE MergeGroups(_, _, _, _)
MergeGroups(names, rest, groups, merged) ==
    IF rest = <<>> THEN [groups |-> groups, merged |-> merged]
    ELSE LET m == Head(rest)
             hits == SelectSeq(Indices(merged),
                         LAMBDA i : AreSimilarSources(m, merged[i].name, groups[m],
                                                      groups[merged[i].owner]))
         IN  IF Len(groups[m]) < 2 THEN MergeGroups(names, Tail(rest), groups, merged)
             ELSE IF hits # <<>>
             THEN MergeGroups(names, Tail(rest),
                      [groups EXCEPT ![merged[hits[1]].owner] = @ \o groups[m]], merged)
             ELSE MergeGroups(names, Tail(rest), groups,
                      DictSet(merged, CleanName(groups, m, names, m), m))

RECURSIVE Gcd(_, _)
Gcd(a, b) == IF b = 0 THEN a ELSE Gcd(b, a % b)

\* the greatest common divisor of the amounts of the first k rows
RECURSIVE AmountUnit(_, _)
AmountUnit(rows, k) ==
    IF k = 0 THEN 0 ELSE Gcd(Abs(rows[k].price), AmountUnit(rows, k - 1))

\* statistics.variance(amounts) > (avg_amount * 0.2) ** 2, the sample variance
\* (divisor n - 1); the test does not depend on the unit of the amounts, which
\* are taken in units of their greatest common divisor
AmountsInconsistent(rows) ==
    LET n == Len(rows)
        unit == AmountUnit(rows, n)
        x == [i \in 1..n |-> Abs(rows[i].price) \div unit]
        s == SumSeq(x)
    IN  25 * n * (n * SumSq(x) - s * s) > (n - 1) * s * s

FuzzyFrequency(iv) ==
    LET s == SumSeq(iv)
        n == Len(iv)
    IN  IF s <= 10 * n THEN "Weekly"
        ELSE IF s <= 40 * n THEN "Monthly"
        ELSE IF s <= 100 * n THEN "Bi-monthly"
        ELSE "Irregular"

\* round(monthly_income, 2) in cents, from the mean amount of the rows
FuzzyMonthlyIncome(f, rows, iv) ==
    CASE f = "Weekly" -> RoundDiv(433 * SumAbs(rows), 100 * Len(rows))
      [] f = "Monthly" -> RoundDiv(SumAbs(rows), Len(rows))
      [] f = "Bi-monthly" -> RoundDiv(SumAbs(rows), 2 * Len(rows))
      [] OTHER -> RoundDiv(30 * SumAbs(rows) * Len(iv), Len(rows) * SumSeq(iv))

\* interval_consistency = 1 - variance(intervals) / avg_interval ** 2 as the
\* fraction ConsistencyNum / ConsistencyDen; 1 for a single interval
ConsistencyNum(iv) ==
    LET k == Len(iv)
        s == SumSeq(iv)
    IN  IF k > 1 THEN (k - 1) * s * s - k * (k * SumSq(iv) - s * s) ELSE 1

ConsistencyDen(iv) ==
    IF Len(iv) > 1 THEN (Len(iv) - 1) * SumSeq(iv) * SumSeq(iv) ELSE 1

\* 5 * sample_confidence = min(len / 5.0, 1.0) * 5
SampleFifths(rows) == Min(Len(rows), 5)

\* round(interval_consistency * sample_confidence * 0.8, 2) in hundredths
FuzzyConfidence(rows, iv) ==
    RoundDiv(16 * SampleFifths(rows) * ConsistencyNum(iv), ConsistencyDen(iv))

\* confidence > 0.3
FuzzyKept(rows, iv) ==
    8 * SampleFifths(rows) * ConsistencyNum(iv) > 15 * ConsistencyDen(iv)

\* the dates of the rows of a merged group
GroupDates(rows) == [i \in 1..Len(rows) |-> rows[i].date_of_transaction]

\* ZeroDivisionError of the interval consistency: several intervals, all 0
ZeroInterval(rows) ==
    LET iv == Intervals(GroupDates(rows))
    IN  Len(iv) > 1 /\ SumSeq(iv) = 0

FuzzyStream(name, rows) ==
    LET iv == Intervals(GroupDates(rows))
        f == FuzzyFrequency(iv)
    IN  [account_id |-> "general_account",
         account_name |-> "",
         name |-> name,
         monthly_income |-> FuzzyMonthlyIncome(f, rows, iv),
         confidence |-> FuzzyConfidence(rows, iv),
         days_available |-> SumSeq(iv) + 1,
         frequency |-> f]

\* _analyze_income_patterns (first definition).  Line 718 reads
\* date_of_transaction as an ISO string: on rows that carry date objects
\* (iso = FALSE, the rows of the Transaction table) the test 'Z' in date raises
\* TypeError for the first group that reaches it; on rows that carry ISO
\* strings the date of the string is the day number of the row.  trans_lists
\* holds the merchant_transactions behind each returned stream
AnalyzeIncomePatternsFuzzy(txs, iso) ==
    LET names == MerchantNames(txs)
        final == MergeGroups(names, names, MerchantGroups(txs), <<>>)
        rowsOf(i) == final.groups[final.merged[i].owner]
        reached == SelectSeq(Indices(final.merged),
                       LAMBDA i : Len(rowsOf(i)) >= 2 /\ ~AmountsInconsistent(rowsOf(i)))
        kept == SelectSeq(reached,
                    LAMBDA i : FuzzyKept(rowsOf(i), Intervals(GroupDates(rowsOf(i)))))
    IN  IF \/ ~iso /\ reached # <<>>
           \/ \E k \in 1..Len(reached) : ZeroInterval(rowsOf(reached[k]))
        THEN [raised |-> TRUE, income_streams |-> <<>>, trans_lists |-> <<>>]
        ELSE LET tagged == SortedByIncome([k \in 1..Len(kept) |->
                               [monthly_income |->
                                    FuzzyStream(final.merged[kept[k]].name,
                                                rowsOf(kept[k])).monthly_income,
                                trans_list |-> rowsOf(kept[k])]])
             IN  [raised |-> FALSE,
                  income_streams |->
                      SortedByIncome([k \in 1..Len(kept) |->
                                         FuzzyStream(final.merged[kept[k]].name, rowsOf(kept[k]))]),
                  trans_lists |-> [k \in 1..Len(tagged) |-> tagged[k].trans_list]]

\* a direct call of the first definition on the deposits of user u
CallFuzzyIncomeAnalysis(u, iso) ==
    /\ incomeOut' = [call |-> "first_definition", user |-> u, iso |-> iso]
                    @@ AnalyzeIncomePatternsFuzzy(Deposits(UserTransactions(u)), iso)
    /\ UNCHANGED <<transactions, insights, fitMemo, detected, subsResp, anomalyOut,
                   runs, plaidResp,
                   insightResp, goals, forecastOut, normOut, bankAccounts, plaidReqs>>

----------------------------------------------------------------------------
(* Ledgers: the transaction tables the detectors are run on *)

\* a series of one merchant and one price: dates start, start + gaps[1], ...
RECURSIVE SeriesDates(_, _)
SeriesDates(start, gaps) ==
    IF gaps = <<>> THEN <<start>>
    ELSE <<start>> \o SeriesDates(start + Head(gaps), Tail(gaps))

SeriesTx(u, m, p, start, gaps, acct) ==
    LET ds == SeriesDates(start, gaps)
    IN  [i \in 1..Len(ds) |-> Tx(u, m, p, ds[i], "GENERAL_SERVICES", acct)]

Reverse(s) == [i \in 1..Len(s) |-> s[Len(s) + 1 - i]]

\* k one-off purchases, all of different prices
Padding(u, k) ==
    [i \in 1..k |-> Tx(u, "Grocer", 3000 + 100 * i, 3 * i,
                       IF i % 2 = 0 THEN "FOOD_AND_DRINK" ELSE "TRANSPORTATION", "acct1")]

MaxPad == 26

GapPatterns ==
    { <<30>>, <<30, 30>>, <<25, 35>>, <<26, 34>>, <<24, 26>>, <<35, 36>>, <<31, 30, 31>>,
      <<7, 7>>, <<5, 9>>, <<6, 8, 7>>, <<14, 14>>, <<365>>, <<350, 380>>, <<351, 379>>,
      <<0, 60>>, <<90, 90>> }

SeriesPrices == {1500, 1999, 2000, 2500}

\* what accompanies the series: nothing, the same merchant spelled differently,
\* another merchant, an income series, a row without merchant name
Companions(u) ==
    { <<>>,
      SeriesTx(u, " NETFLIX ", 2500, 15, <<30>>, "acct1"),
      SeriesTx(u, "Spotify", 999, 3, <<7, 7, 7>>, "acct1"),
      SeriesTx(u, "ACME Corp", -1500, 1, <<30, 30>>, "acct1"),
      <<Tx(u, None, 1200, 40, None, "acct1")>> }

OtherUserRows == SeriesTx(2, "Spotify", 999, 0, <<30, 30>>, "acct2")

RecurringLedgers ==
    { (IF rev THEN Reverse(SeriesTx(1, "Netflix", p, 10, g, "acct1"))
       ELSE SeriesTx(1, "Netflix", p, 10, g, "acct1"))
      \o c \o Padding(1, k) \o OtherUserRows :
        g \in GapPatterns, p \in SeriesPrices, c \in Companions(1),
        k \in {0, MaxPad}, rev \in BOOLEAN }

NoRuns == [r \in Requests |-> [pc |-> "idle"]]

\* no request of the Plaid handlers is under way
NoPlaidRequests == [r \in Requests |-> [pc |-> "idle"]]

InitRecurring ==
    /\ transactions \in RecurringLedgers
    /\ insights = <<>>
    /\ fitMemo = [u \in Users |-> Idle]
    /\ detected = Idle
    /\ subsResp = NoResponse
    /\ anomalyOut = Idle
    /\ runs = NoRuns
    /\ plaidResp = 0
    /\ incomeOut = NoIncome
    /\ insightResp = 0
    /\ goals = <<>>
    /\ forecastOut = NoForecast
    /\ normOut = NoName
    /\ bankAccounts = <<>>
    /\ plaidReqs = NoPlaidRequests

NextRecurring ==
    \E u \in Users : CallDetectSubscriptions(u) \/ GetSubscriptionAnalysis(u)

SpecRecurring == InitRecurring /\ [][NextRecurring]_vars

----------------------------------------------------------------------------
(* Properties of the recurring charge detector *)

\* whether a list of charge records holds a record of the series key
Listed(list, key) ==
    \E i \in 1..Len(list) : list[i].merchant = key[1] /\ list[i].amount = key[2]

\* whether it holds a record of the series key with frequency f
ListedAs(list, key, f) ==
    \E i \in 1..Len(list) :
        list[i].merchant = key[1] /\ list[i].amount = key[2] /\ list[i].frequency = f

\* the grouped expense series of user u
SeriesKeys(u) ==
    LET ks == PatternKeys(UserTransactions(u)) IN {ks[i] : i \in 1..Len(ks)}

SeriesLen(u, key) == Len(PatternDates(UserTransactions(u), key))

\* lo <= mean <= hi and stddev < dev over the day gaps gs, the stddev being
\* sqrt(sum (g - mean)^2 / n); all of it multiplied out by n
RegularGaps(gs, lo, hi, dev) ==
    LET n == Len(gs)
        total == SumSeq(gs)
        spread == SumSeq([i \in 1..n |-> (n * gs[i] - total) * (n * gs[i] - total)])
    IN  /\ lo * n <= total
        /\ total <= hi * n
        /\ spread < dev * dev * n * n * n

\* the label the interval rules give the series
ExpectedLabel(u, key) ==
    LET gs == Intervals(PatternDates(UserTransactions(u), key))
    IN  IF SeriesLen(u, key) < 2 THEN "none"
        ELSE IF RegularGaps(gs, 25, 35, 5) THEN "monthly"
        ELSE IF RegularGaps(gs, 6, 8, 2) THEN "weekly"
        ELSE IF RegularGaps(gs, 350, 380, 15) THEN "annual"
        ELSE "none"

\* the detector of the engine ran past its size guard and completed
EngineDetected ==
    detected.status = "ok" /\ detected.count >= MinSubscriptionTransactions

EndpointDetected == subsResp.status = 200

\* a labelled series is a gray charge iff amount < $20 and occurrences >= 3,
\* a subscription otherwise, and never both
SplitByGrayRule(u, subs, gray) ==
    \A key \in SeriesKeys(u) :
        ExpectedLabel(u, key) # "none" =>
            /\ Listed(gray, key) <=> (key[2] < 2000 /\ SeriesLen(u, key) >= 3)
            /\ Listed(subs, key) <=> ~(key[2] < 2000 /\ SeriesLen(u, key) >= 3)
            /\ ~(Listed(gray, key) /\ Listed(subs, key))

\* C1: every expense series with a recognized frequency label is reported as a
\* gray charge iff its amount is below $20 and it has at least 3 occurrences,
\* as a subscription otherwise, and never as both; by _detect_subscriptions
\* and by GET /insights/subscriptions alike.
C1_GrayChargeSplit ==
    /\ EngineDetected =>
           SplitByGrayRule(detected.user, detected.subscriptions, detected.gray_charges)
    /\ EndpointDetected =>
           SplitByGrayRule(subsResp.user, subsResp.subscriptions, subsResp.gray_charges)

\* both entry points have reported a $15 series of 3 monthly occurrences as a
\* gray charge, next to a subscription
C1_Witness ==
    /\ EngineDetected
    /\ EndpointDetected
    /\ \E i \in 1..Len(detected.gray_charges) :
           /\ detected.gray_charges[i].amount = 1500
           /\ detected.gray_charges[i].occurrences = 3
           /\ detected.gray_charges[i].frequency = "monthly"
    /\ detected.subscriptions # <<>>
    /\ \E i \in 1..Len(subsResp.gray_charges) :
           /\ subsResp.gray_charges[i].amount = 1500
           /\ subsResp.gray_charges[i].occurrences = 3
    /\ subsResp.subscriptions # <<>>

\* every series is listed with exactly the label the interval rules give it,
\* and not at all when they give none
LabelledByRules(u, subs, gray) ==
    \A key \in SeriesKeys(u) :
        \A f \in {"monthly", "weekly", "annual"} :
            (ListedAs(subs, key, f) \/ ListedAs(gray, key, f)) <=> ExpectedLabel(u, key) = f

\* C2: an expense series of at least 2 dates is labelled monthly iff
\* 25 <= mean <= 35 and stddev < 5, weekly iff 6 <= mean <= 8 and stddev < 2,
\* annual iff 350 <= mean <= 380 and stddev < 15 (mean and stddev of its day
\* gaps), and is otherwise in neither list; 2 occurrences 30 days apart are
\* monthly.
C2_IntervalLabels ==
    /\ EngineDetected =>
           LabelledByRules(detected.user, detected.subscriptions, detected.gray_charges)
    /\ EndpointDetected =>
           LabelledByRules(subsResp.user, subsResp.subscriptions, subsResp.gray_charges)

\* both entry points labelled a series of 2 occurrences 30 days apart monthly
\* and dropped a series of at least 2 dates
C2_Witness ==
    /\ EngineDetected
    /\ EndpointDetected
    /\ detected.user = subsResp.user
    /\ \E key \in SeriesKeys(detected.user) :
           /\ SeriesLen(detected.user, key) = 2
           /\ Intervals(PatternDates(UserTransactions(detected.user), key)) = <<30>>
           /\ ListedAs(detected.subscriptions, key, "monthly")
           /\ ListedAs(subsResp.subscriptions, key, "monthly")
    /\ \E key \in SeriesKeys(detected.user) :
           /\ SeriesLen(detected.user, key) >= 2
           /\ ~Listed(detected.subscriptions, key)
           /\ ~Listed(detected.gray_charges, key)
           /\ ~Listed(subsResp.subscriptions, key)
           /\ ~Listed(subsResp.gray_charges, key)

\* C3: with fewer than 30 transactions of the user, recurring-charge detection
\* returns an empty result (no subscription record, no gray-charge record, no
\* subscription_summary or gray_charges insight) and raises no error, through
\* _detect_subscriptions, which generate_user_insights runs, and through
\* GET /insights/subscriptions.
C3_FewTransactionsEmpty ==
    /\ (detected.status # "idle" /\ detected.count < MinSubscriptionTransactions) =>
           /\ detected.status = "ok"
           /\ detected.subscriptions = <<>>
           /\ detected.gray_charges = <<>>
           /\ detected.insights = <<>>
    /\ (subsResp.status # 0 /\ subsResp.count < MinSubscriptionTransactions) =>
           /\ subsResp.status = 200
           /\ subsResp.subscriptions = <<>>
           /\ subsResp.gray_charges = <<>>

----------------------------------------------------------------------------
(* Ledgers for the anomaly detector *)

MaxAnomalyRows == 10

\* n purchases of growing price, one of them large
Purchases(u, n) ==
    [i \in 1..n |-> Tx(u, IF i % 3 = 0 THEN "Spotify" ELSE "Grocer",
                       IF i = 2 THEN 50000 ELSE 2000 + 100 * i, 2 * i,
                       IF i % 2 = 0 THEN "FOOD_AND_DRINK" ELSE None, "acct1")]

\* n rows, purchases of $40 and deposits of $40 in turn, and a missing merchant name
PurchasesAndDeposits(u, n) ==
    [i \in 1..n |-> Tx(u, IF i = 1 THEN None ELSE "Grocer",
                       IF i % 2 = 0 THEN 4000 ELSE -4000, 3 * i,
                       "GENERAL_MERCHANDISE", "acct1")]

\* n rows, purchases and a salary that outweighs them
PurchasesAndSalary(u, n) ==
    [i \in 1..n |-> Tx(u, IF i = 1 THEN "ACME Corp" ELSE "Grocer",
                       IF i = 1 THEN -90000 ELSE 5000 + 1000 * i, 3 * i,
                       IF i = 1 THEN "INCOME" ELSE "FOOD_AND_DRINK", "acct1")]

AnomalyLedgers ==
    { l \o Purchases(2, 9) :
        l \in UNION { {Purchases(1, n), PurchasesAndDeposits(1, n), PurchasesAndSalary(1, n)} :
                        n \in {9, MaxAnomalyRows} } }

InitAnomaly ==
    /\ transactions \in AnomalyLedgers
    /\ insights = <<>>
    /\ fitMemo = [u \in Users |-> Idle]
    /\ detected = Idle
    /\ subsResp = NoResponse
    /\ anomalyOut = Idle
    /\ runs = NoRuns
    /\ plaidResp = 0
    /\ incomeOut = NoIncome
    /\ insightResp = 0
    /\ goals = <<>>
    /\ forecastOut = NoForecast
    /\ normOut = NoName
    /\ bankAccounts = <<>>
    /\ plaidReqs = NoPlaidRequests

NextAnomaly == \E u \in Users : CallDetectAnomalies(u)

SpecAnomaly == InitAnomaly /\ [][NextAnomaly]_vars

----------------------------------------------------------------------------
(* Properties of the anomaly detector *)

\* C4: _detect_anomalies returns at most 3 insights, each of confidence 0.85,
\* and with fewer than 10 transactions it returns none and does not fit the
\* outlier detector.
C4_AnomalyLimit ==
    /\ anomalyOut.status = "ok" =>
           /\ Len(anomalyOut.insights) <= 3
           /\ \A k \in 1..Len(anomalyOut.insights) :
                  anomalyOut.insights[k].confidence_score = 85
           /\ anomalyOut.count < 10 => (anomalyOut.insights = <<>> /\ ~anomalyOut.fitted)
    /\ \A u \in Users :
           Len(UserTransactions(u)) < 10 => fitMemo[u].status # "fitted"

\* a run in which the detector flagged more than 3 of at least 10 rows
C4_Witness ==
    /\ anomalyOut.status = "ok"
    /\ anomalyOut.count >= 10
    /\ Len(anomalyOut.flagged) > 3
    /\ Len(anomalyOut.insights) = 3
    /\ fitMemo[1].status = "fitted"

\* C5: the insight of a flagged transaction has type anomaly_high_amount iff
\* |amount| > 2 x mean(|amount|), the mean being that of the absolute amounts
\* of all transactions of the run, and type anomaly_pattern otherwise.
C5_HighAmountByMeanOfAbs ==
    anomalyOut.status = "ok" =>
        LET txs == UserTransactions(anomalyOut.user)
            sumAbs == SumSeq([i \in 1..Len(txs) |-> Abs(txs[i].price)])
        IN  \A k \in 1..Len(anomalyOut.insights) :
                LET t == txs[anomalyOut.flagged[k]]
                IN  /\ anomalyOut.insights[k].insight_type = "anomaly_high_amount"
                       <=> Abs(t.price) * Len(txs) > 2 * sumAbs
                    /\ anomalyOut.insights[k].insight_type = "anomaly_pattern"
                       <=> ~(Abs(t.price) * Len(txs) > 2 * sumAbs)

----------------------------------------------------------------------------
(* The system: the stores, the insight requests, the subscription endpoint *)

\* a short history: a monthly $25 charge and a few purchases
ShortLedger ==
    SeriesTx(1, "Netflix", 2500, 10, <<30, 30>>, "acct1")
    \o <<Tx(1, "Grocer", 4000, 12, "FOOD_AND_DRINK", "acct1"),
         Tx(1, "Grocer", 9000, 48, "COFFEE_SHOPS", "acct1")>>

\* a long history: a gray charge, a subscription and one-off purchases
LongLedger ==
    SeriesTx(1, "Netflix", 1500, 10, <<30, 30>>, "acct1")
    \o SeriesTx(1, "Spotify", 2500, 3, <<7, 7, 7>>, "acct1")
    \o Padding(1, MaxPad)

EngineLedgers ==
    { l \o OtherUserRows : l \in {<<>>, ShortLedger, LongLedger} }

Init ==
    /\ transactions \in EngineLedgers
    /\ insights = <<>>
    /\ fitMemo = [u \in Users |-> Idle]
    /\ detected = Idle
    /\ subsResp = NoResponse
    /\ anomalyOut = Idle
    /\ runs = NoRuns
    /\ plaidResp = 0
    /\ incomeOut = NoIncome
    /\ insightResp = 0
    /\ goals = <<>>
    /\ forecastOut = NoForecast
    /\ normOut = NoName
    /\ bankAccounts = <<>>
    /\ plaidReqs = NoPlaidRequests

Next ==
    \/ \E r \in Requests, u \in Users : StartGenerate(r, u)
    \/ \E r \in Requests : CommitGenerate(r)
    \/ \E u \in Users, body \in PlaidBodies : AddPlaidTransaction(u, body)

Spec == Init /\ [][Next]_vars

----------------------------------------------------------------------------
(* Properties of the insight synthesizer and the insight store *)

\* a request whose engine run has returned its insights
Computed(r) == runs[r].pc \in {"computed", "done"} /\ runs[r].status # 500

Committed(r) == runs[r].pc = "done" /\ runs[r].status = 200

Tuples(out) ==
    [i \in 1..Len(out) |->
        <<out[i].title, out[i].message, out[i].insight_type, out[i].confidence_score>>]

RowKey(x) == <<x.user_id, x.title, x.message, x.insight_type>>

\* the number of rows of a sequence of insights with the key k
CountKey(rows, k) == Cardinality({i \in 1..Len(rows) : RowKey(rows[i]) = k})

\* two committed requests of one user over the same rows
TwoCommittedRuns ==
    /\ Committed(1)
    /\ Committed(2)
    /\ runs[1].user = runs[2].user
    /\ runs[1].data = runs[2].data

\* C7 as stated: after two requests of one user over an unchanged transaction
\* set, their writes being serialized, no two insight rows of that user share
\* title, message and insight_type.
C7_NoDuplicateRows ==
    TwoCommittedRuns =>
        \A i \in 1..Len(insights), j \in 1..Len(insights) :
            (i # j /\ insights[i].user_id = runs[1].user) =>
                RowKey(insights[i]) # RowKey(insights[j])

\* C7 as amended: the serialized writes store every insight of every request;
\* each key is stored as many times as the committed requests emitted it, so
\* after two requests over the same rows every emitted insight is stored at
\* least twice.
C7_EveryRunStored ==
    /\ \A k \in {RowKey(insights[i]) : i \in 1..Len(insights)}
             \cup UNION {{RowKey(runs[r].out[i]) : i \in 1..Len(runs[r].out)} :
                           r \in {q \in Requests : Committed(q)}} :
           CountKey(insights, k) =
               SumSeq([r \in 1..2 |-> IF Committed(r) THEN CountKey(runs[r].out, k) ELSE 0])
    /\ TwoCommittedRuns =>
           \A i \in 1..Len(runs[1].out) :
               CountKey(insights, RowKey(runs[1].out[i])) >= 2

\* two committed requests of one user over the same rows that emitted insights
C7_Witness ==
    /\ TwoCommittedRuns
    /\ runs[1].out # <<>>
    /\ Len(insights) >= 2 * Len(runs[1].out)

----------------------------------------------------------------------------
(* Ledgers for the income detectors *)

\* the deposits of the followed employer, in cents: below the $50 floor, on it,
\* below the monthly floor ($60, $62.50), a half dollar above it ($312.50),
\* whole dollars, a salary
IncomeAmounts == {4000, 5000, 6000, 6250, 31250, 80000, 500000}

IncomeGapPatterns ==
    { <<14>>, <<14, 14, 14>>, <<13, 15>>, <<10, 18>>, <<7, 7, 7>>, <<0, 0>>, <<0>>,
      <<30>>, <<30, 30>>, <<25, 35>>, <<20, 40>>, <<50, 10, 30>>, <<90, 90>>, <<120, 130>>,
      <<30, 30, 30, 30, 30>>, <<25, 35, 25, 35, 25>>, <<28, 31, 30, 31, 30>>,
      <<35, 35, 35, 35, 35>>, <<25, 25, 25, 25, 25>>, <<33, 25, 35, 27, 31>>,
      <<30, 30, 30, 30>>, <<30, 30, 30, 30, 30, 30>>, <<24, 30, 30, 30, 30>> }

\* the deposits of one employer paid alternately into two accounts
Alternating(rows) ==
    [i \in 1..Len(rows) |->
        IF i % 2 = 0 THEN [rows[i] EXCEPT !.account_id = "acct2"] ELSE rows[i]]

\* what accompanies the deposits: nothing, the employer under a second name,
\* a similar name with a similar and with another amount, a second source, a
\* source called Unknown, rows without merchant name, purchases, payments to
\* the employer with two refunds of $40
IncomeCompanions(u) ==
    { <<>>,
      SeriesTx(u, "Acme Corp Payroll", -500000, 200, <<30>>, "acct1"),
      SeriesTx(u, "ACME HR", -520000, 5, <<30, 30>>, "acct1"),
      SeriesTx(u, "ACME HR", -20000, 5, <<30, 30>>, "acct1"),
      SeriesTx(u, "Client Services LLC", -80000, 2, <<14, 14, 14>>, "acct2"),
      SeriesTx(u, "Unknown", -30000, 4, <<30, 31>>, "acct1"),
      <<Tx(u, None, -10000, 40, None, "acct1")>>,
      <<Tx(u, None, -2000, 40, None, "acct1"), Tx(u, None, -2500, 70, None, "acct1")>>,
      Padding(u, 3),
      SeriesTx(u, "ACME Corp", 80000, 3, <<14, 14>>, "acct1")
          \o SeriesTx(u, "ACME Corp", -4000, 5, <<7>>, "acct1") }

IncomeLedgers ==
    { (IF alt THEN Alternating(SeriesTx(1, "ACME Corp", -p, 10, g, "acct1"))
       ELSE SeriesTx(1, "ACME Corp", -p, 10, g, "acct1"))
      \o c \o OtherUserRows :
        p \in IncomeAmounts, g \in IncomeGapPatterns, c \in IncomeCompanions(1),
        alt \in BOOLEAN }

InitIncome ==
    /\ transactions \in IncomeLedgers
    /\ insights = <<>>
    /\ fitMemo = [u \in Users |-> Idle]
    /\ detected = Idle
    /\ subsResp = NoResponse
    /\ anomalyOut = Idle
    /\ runs = NoRuns
    /\ plaidResp = 0
    /\ incomeOut = NoIncome
    /\ insightResp = 0
    /\ goals = <<>>
    /\ forecastOut = NoForecast
    /\ normOut = NoName
    /\ bankAccounts = <<>>
    /\ plaidReqs = NoPlaidRequests

NextIncome ==
    \E u \in Users :
        \/ PostIncomeAnalysis(u)
        \/ \E iso \in BOOLEAN : CallFuzzyIncomeAnalysis(u, iso)

SpecIncome == InitIncome /\ [][NextIncome]_vars

----------------------------------------------------------------------------
(* Properties of the income detectors *)

\* C8: every income stream the first (fuzzy-cluster) definition returns has a
\* confidence in [0, 0.8], and every income stream the second (exact-key)
\* definition returns, here through POST /income/analysis, has a confidence
\* in [0, 1].
C8_ConfidenceRange ==
    /\ incomeOut.call = "first_definition" =>
           \A i \in 1..Len(incomeOut.income_streams) :
               incomeOut.income_streams[i].confidence \in 0..80
    /\ incomeOut.call = "endpoint" =>
           \A i \in 1..Len(incomeOut.income_streams) :
               incomeOut.income_streams[i].confidence \in 0..100

\* the first definition returned a stream at its ceiling 0.8 next to one below it
C8_Witness ==
    /\ incomeOut.call = "first_definition"
    /\ ~incomeOut.raised
    /\ \E i, j \in 1..Len(incomeOut.income_streams) :
           /\ incomeOut.income_streams[i].confidence = 80
           /\ incomeOut.income_streams[j].confidence < 80

\* the deposits of user u, in storage order
DepositsOf(u) == SelectSeq(UserTransactions(u), LAMBDA t : t.price < 0)

\* the merchant names on the deposits of user u
DepositMerchants(u) ==
    {DepositsOf(u)[i].merchant_name : i \in 1..Len(DepositsOf(u))} \ {None}

\* every deposit of user u of $50 or more carries a merchant name
AllDepositsNamed(u) ==
    \A i \in 1..Len(DepositsOf(u)) :
        Abs(DepositsOf(u)[i].price) >= 5000 => DepositsOf(u)[i].merchant_name # None

\* the deposits of merchant m are 6 deposits of exactly $5000 on one account,
\* all consecutive gaps between 25 and 35 days
IsMonthlySalary(u, m) ==
    LET rows == SelectSeq(DepositsOf(u), LAMBDA t : t.merchant_name = m)
        gaps == Intervals([i \in 1..Len(rows) |-> rows[i].date_of_transaction])
    IN  /\ Len(rows) = 6
        /\ \A i \in 1..6 : rows[i].price = -500000 /\ rows[i].account_id = rows[1].account_id
        /\ \A k \in 1..5 : gaps[k] \in 25..35

\* the name a stream of the lowered merchant name carries
StreamName(lowered) == IF lowered = "unknown" THEN "Regular Deposit" ELSE Title(lowered)

\* C9: for 6 deposits of exactly $5000 from one merchant on one account, all
\* consecutive gaps between 25 and 35 days, POST /income/analysis returns one
\* stream of that merchant, with frequency monthly, monthly_income 5000 and a
\* confidence above 0.5 (the user's other deposits carrying merchant names).
C9_MonthlySalary ==
    incomeOut.call = "endpoint" =>
        \A m \in DepositMerchants(incomeOut.user) :
            (IsMonthlySalary(incomeOut.user, m) /\ AllDepositsNamed(incomeOut.user)) =>
                /\ incomeOut.status = 200
                /\ LET named == SelectSeq(incomeOut.income_streams,
                                    LAMBDA s : s.name = StreamName(LowerStrip(m)))
                   IN  /\ Len(named) = 1
                       /\ named[1].frequency = "monthly"
                       /\ named[1].monthly_income = 500000
                       /\ named[1].confidence > 50

\* the salary was paid on an uneven 25..35 day cadence and is reported next to
\* another stream
C9_Witness ==
    /\ incomeOut.call = "endpoint"
    /\ incomeOut.status = 200
    /\ Len(incomeOut.income_streams) >= 2
    /\ \E m \in DepositMerchants(incomeOut.user) :
           /\ IsMonthlySalary(incomeOut.user, m)
           /\ \E t1, t2 \in {DepositsOf(incomeOut.user)[i] : i \in 1..Len(DepositsOf(incomeOut.user))} :
                  /\ t1.merchant_name = m
                  /\ t2.merchant_name = m
                  /\ t2.date_of_transaction - t1.date_of_transaction = 25
           /\ \E i \in 1..Len(incomeOut.income_streams) :
                  /\ incomeOut.income_streams[i].name = StreamName(LowerStrip(m))
                  /\ incomeOut.income_streams[i].monthly_income = 500000

\* the dates of a set of rows span gap * (number of rows - 1) days: the mean of
\* their consecutive gaps is gap
MeanGapIs(rows, gap) ==
    /\ Len(rows) >= 2
    /\ \E i, j \in 1..Len(rows) :
           /\ \A k \in 1..Len(rows) :
                  /\ rows[i].date_of_transaction <= rows[k].date_of_transaction
                  /\ rows[k].date_of_transaction <= rows[j].date_of_transaction
           /\ rows[j].date_of_transaction - rows[i].date_of_transaction = gap * (Len(rows) - 1)

\* the number of streams with that name, frequency and monthly income
Reported(streams, name, f, income) ==
    Len(SelectSeq(streams, LAMBDA s : s.name = name /\ s.frequency = f
                                        /\ s.monthly_income = income))

\* C10 (as stated): through POST /income/analysis, the equal-amount deposits of
\* one merchant (on one account) with mean gap 14 days are reported as one bi-weekly stream with
\* monthly_income = amount x 2.17, those with mean gap 30 days as one monthly
\* stream with monthly_income = amount, and total_monthly_income is the sum of
\* the monthly_income of the returned streams (the user's deposits all
\* carrying merchant names).
C10_IncomeByMeanGap ==
    (incomeOut.call = "endpoint" /\ AllDepositsNamed(incomeOut.user)) =>
        /\ incomeOut.status = 200
        /\ \A i \in 1..Len(DepositsOf(incomeOut.user)) :
               LET t == DepositsOf(incomeOut.user)[i]
                   rows == SelectSeq(DepositsOf(incomeOut.user),
                               LAMBDA x : /\ x.merchant_name = t.merchant_name
                                          /\ x.price = t.price
                                          /\ x.account_id = t.account_id)
                   name == StreamName(LowerStrip(t.merchant_name))
               IN  t.merchant_name # None =>
                       /\ MeanGapIs(rows, 14) =>
                              Reported(incomeOut.income_streams, name, "bi-weekly",
                                       RoundDiv(217 * Abs(t.price), 100)) = 1
                       /\ MeanGapIs(rows, 30) =>
                              Reported(incomeOut.income_streams, name, "monthly",
                                       Abs(t.price)) = 1
        /\ incomeOut.total_monthly_income = TotalMonthlyIncome(incomeOut.income_streams)

\* the number of streams with that name, account, frequency and monthly income
ReportedOn(streams, name, account, f, income) ==
    Len(SelectSeq(streams, LAMBDA s : s.name = name /\ s.account_id = account
                                        /\ s.frequency = f /\ s.monthly_income = income))

\* C10 (amended): POST /income/analysis answers 500 when a deposit of $50 or
\* more has no merchant name.  Otherwise the deposits of $50 or more of one
\* merchant on one account whose amounts round to the same whole dollar R form
\* a group; a group with mean gap 14 days is reported as one bi-weekly stream
\* with monthly_income = R x 2.17 if R x 2.17 >= 200 and is not reported
\* otherwise; a group with mean gap 30 days is reported as one monthly stream
\* with monthly_income = R if R >= 200 and not otherwise;
\* total_monthly_income is the sum of the monthly_income of the returned
\* streams.
C10_IncomeByRoundedAmount ==
    incomeOut.call = "endpoint" =>
        /\ incomeOut.status = (IF AllDepositsNamed(incomeOut.user) THEN 200 ELSE 500)
        /\ incomeOut.status = 200 =>
             \A i \in 1..Len(DepositsOf(incomeOut.user)) :
               LET t == DepositsOf(incomeOut.user)[i]
                   dollars == RoundDiv(Abs(t.price), 100)
                   rows == SelectSeq(DepositsOf(incomeOut.user),
                               LAMBDA x : /\ Abs(x.price) >= 5000
                                          /\ LowerStrip(x.merchant_name) = LowerStrip(t.merchant_name)
                                          /\ x.account_id = t.account_id
                                          /\ RoundDiv(Abs(x.price), 100) = dollars)
                   name == StreamName(LowerStrip(t.merchant_name))
               IN  Abs(t.price) >= 5000 =>
                       /\ MeanGapIs(rows, 14) =>
                              ReportedOn(incomeOut.income_streams, name, t.account_id,
                                         "bi-weekly", 217 * dollars)
                                  = (IF 217 * dollars >= 20000 THEN 1 ELSE 0)
                       /\ MeanGapIs(rows, 30) =>
                              ReportedOn(incomeOut.income_streams, name, t.account_id,
                                         "monthly", 100 * dollars)
                                  = (IF dollars >= 200 THEN 1 ELSE 0)
        /\ incomeOut.total_monthly_income = TotalMonthlyIncome(incomeOut.income_streams)

\* deposits of $312.50 with gaps of 13 and 15 days are reported as a bi-weekly
\* stream of 312 x 2.17 = $677.04 a month, next to another stream
C10_Witness ==
    /\ incomeOut.call = "endpoint"
    /\ incomeOut.status = 200
    /\ Len(incomeOut.income_streams) >= 2
    /\ incomeOut.total_monthly_income > 67704
    /\ \E i \in 1..Len(incomeOut.income_streams) :
           /\ incomeOut.income_streams[i].frequency = "bi-weekly"
           /\ incomeOut.income_streams[i].monthly_income = 67704
    /\ \E i, j \in 1..Len(DepositsOf(incomeOut.user)) :
           /\ DepositsOf(incomeOut.user)[i].price = -31250
           /\ DepositsOf(incomeOut.user)[j].price = -31250
           /\ DepositsOf(incomeOut.user)[j].date_of_transaction
                  - DepositsOf(incomeOut.user)[i].date_of_transaction = 13

\* the rows behind the streams of the last income analysis
Contributors ==
    UNION {{incomeOut.trans_lists[k][i] : i \in 1..Len(incomeOut.trans_lists[k])} :
             k \in 1..Len(incomeOut.trans_lists)}

\* C11 (as stated): every transaction behind a returned income stream has a
\* negative amount, and through the exact-key detector an absolute amount
\* above $50: no expense and no deposit of $50 or less contributes.
C11_ContributorsAboveFloor ==
    /\ incomeOut.call \in {"endpoint", "first_definition"} =>
           \A t \in Contributors : t.price < 0
    /\ incomeOut.call = "endpoint" =>
           \A t \in Contributors : Abs(t.price) > 5000

\* C11 (amended): every transaction behind a returned income stream has a
\* negative amount, and through the exact-key detector an absolute amount of
\* at least $50: no expense and no deposit under $50 contributes.
C11_ContributorsFromFloor ==
    /\ incomeOut.call \in {"endpoint", "first_definition"} =>
           /\ Len(incomeOut.trans_lists) = Len(incomeOut.income_streams)
           /\ \A t \in Contributors : t.price < 0 /\ t.user_id = incomeOut.user
    /\ incomeOut.call = "endpoint" =>
           \A t \in Contributors : Abs(t.price) >= 5000

\* a stream of deposits of exactly $50 was returned for a user who has
\* expenses and smaller deposits too
C11_Witness ==
    /\ incomeOut.call = "endpoint"
    /\ incomeOut.income_streams # <<>>
    /\ \E t \in Contributors : t.price = -5000
    /\ \E i \in 1..Len(transactions) :
           transactions[i].user_id = incomeOut.user /\ transactions[i].price > 0
    /\ \E i \in 1..Len(transactions) :
           /\ transactions[i].user_id = incomeOut.user
           /\ transactions[i].price < 0
           /\ transactions[i].price > -5000

\* C12: the income streams returned by an income analysis are in
\* non-increasing order of monthly_income.
C12_SortedByMonthlyIncome ==
    incomeOut.call \in {"endpoint", "first_definition"} =>
        \A i, j \in 1..Len(incomeOut.income_streams) :
            i < j => incomeOut.income_streams[i].monthly_income
                         >= incomeOut.income_streams[j].monthly_income

\* the endpoint returned streams of different monthly income, the largest of
\* them found in deposits older than those of a smaller one
C12_Witness ==
    /\ incomeOut.call = "endpoint"
    /\ Len(incomeOut.income_streams) >= 2
    /\ incomeOut.income_streams[1].monthly_income
           > incomeOut.income_streams[2].monthly_income
    /\ incomeOut.trans_lists[1][1].date_of_transaction
           < incomeOut.trans_lists[2][1].date_of_transaction

----------------------------------------------------------------------------
(* Charges and deposits of one user, seen by both detectors *)

\* gaps of a series, the empty one for a single row
GroupGaps == { <<>>, <<30>>, <<30, 30>>, <<7, 7>>, <<7, 7, 7>>, <<90, 90>> }

DepositGaps == { <<>>, <<14>>, <<30, 30>>, <<7, 7, 7>> }

\* a charge series, a deposit series, possibly one more deposit of another
\* source, one-off purchases
GroupLedgers ==
    { SeriesTx(1, "Netflix", p, 10, g, "acct1")
      \o SeriesTx(1, "ACME Corp", -a, 12, h, "acct1")
      \o c \o Padding(1, k) \o OtherUserRows :
        p \in {1500, 2500}, g \in GroupGaps, a \in {5000, 80000}, h \in DepositGaps,
        c \in { <<>>, <<Tx(1, "Client Services LLC", -80000, 40, None, "acct2")>> },
        k \in {0, MaxPad} }

InitGroups ==
    /\ transactions \in GroupLedgers
    /\ insights = <<>>
    /\ fitMemo = [u \in Users |-> Idle]
    /\ detected = Idle
    /\ subsResp = NoResponse
    /\ anomalyOut = Idle
    /\ runs = NoRuns
    /\ plaidResp = 0
    /\ incomeOut = NoIncome
    /\ insightResp = 0
    /\ goals = <<>>
    /\ forecastOut = NoForecast
    /\ normOut = NoName
    /\ bankAccounts = <<>>
    /\ plaidReqs = NoPlaidRequests

NextGroups ==
    \E u \in Users :
        \/ CallDetectSubscriptions(u)
        \/ GetSubscriptionAnalysis(u)
        \/ PostIncomeAnalysis(u)
        \/ \E iso \in BOOLEAN : CallFuzzyIncomeAnalysis(u, iso)

SpecGroups == InitGroups /\ [][NextGroups]_vars

\* every record of the list stands for a series of user u of the record's
\* size, and that size is at least 2
BackedByTwo(list, u) ==
    \A i \in 1..Len(list) :
        /\ list[i].occurrences >= 2
        /\ list[i].occurrences = SeriesLen(u, <<list[i].merchant, list[i].amount>>)

\* C13: every subscription record, gray-charge record and income stream is
\* backed by a group of at least 2 transactions, under either grouping
\* strategy; a group of fewer than 2 yields no record.
C13_GroupsOfTwo ==
    /\ detected.status = "ok" =>
           /\ BackedByTwo(detected.subscriptions, detected.user)
           /\ BackedByTwo(detected.gray_charges, detected.user)
    /\ subsResp.status = 200 =>
           /\ BackedByTwo(subsResp.subscriptions, subsResp.user)
           /\ BackedByTwo(subsResp.gray_charges, subsResp.user)
    /\ incomeOut.call \in {"endpoint", "first_definition"} =>
           /\ Len(incomeOut.trans_lists) = Len(incomeOut.income_streams)
           /\ \A k \in 1..Len(incomeOut.trans_lists) : Len(incomeOut.trans_lists[k]) >= 2

\* both detectors of charges and the income endpoint returned records for a
\* user who also has charges and deposits that occur once
C13_Witness ==
    /\ EngineDetected
    /\ detected.subscriptions # <<>>
    /\ subsResp.status = 200
    /\ subsResp.user = detected.user
    /\ subsResp.subscriptions \o subsResp.gray_charges # <<>>
    /\ incomeOut.call = "endpoint"
    /\ incomeOut.user = detected.user
    /\ incomeOut.income_streams # <<>>
    /\ \E key \in SeriesKeys(detected.user) : SeriesLen(detected.user, key) = 1
    /\ \E i \in 1..Len(transactions) :
           /\ transactions[i].user_id = detected.user
           /\ transactions[i].price <= -5000
           /\ \A j \in 1..Len(transactions) :
                  transactions[j].merchant_name = transactions[i].merchant_name => j = i

----------------------------------------------------------------------------
(* Users with many recurring charges *)

MaxSubscriptionSeries == 6

MaxGraySeries == 4

\* n series of one merchant, told apart by their prices base + 100, base + 200,
\* ..., each with the given gaps, series k starting on day k
SeriesBlock(u, m, base, gaps, n) ==
    LET size == Len(gaps) + 1
    IN  [i \in 1..(n * size) |->
            LET k == ((i - 1) \div size) + 1
                pos == ((i - 1) % size) + 1
            IN  Tx(u, m, base + 100 * k, SeriesDates(k, gaps)[pos], "GENERAL_SERVICES", "acct1")]

\* monthly charges of $21 and more, weekly charges under $20 seen 3 times,
\* one-off purchases
SummaryLedgers ==
    { SeriesBlock(1, "Netflix", 2000, <<30>>, ns)
      \o SeriesBlock(1, "Spotify", 500, <<7, 7>>, ng)
      \o Padding(1, k) \o OtherUserRows :
        ns \in 0..MaxSubscriptionSeries, ng \in 0..MaxGraySeries, k \in {0, MaxPad + 4} }

InitSummary ==
    /\ transactions \in SummaryLedgers
    /\ insights = <<>>
    /\ fitMemo = [u \in Users |-> Idle]
    /\ detected = Idle
    /\ subsResp = NoResponse
    /\ anomalyOut = Idle
    /\ runs = NoRuns
    /\ plaidResp = 0
    /\ incomeOut = NoIncome
    /\ insightResp = 0
    /\ goals = <<>>
    /\ forecastOut = NoForecast
    /\ normOut = NoName
    /\ bankAccounts = <<>>
    /\ plaidReqs = NoPlaidRequests

SpecSummary == InitSummary /\ [][NextRecurring]_vars

\* the insights of the given type that the last run of the detector emitted
EmittedOfType(type) ==
    SelectSeq(detected.insights, LAMBDA i : i.insight_type = type)

\* C14: one run of _detect_subscriptions emits at most one subscription_summary
\* insight (confidence 0.9, at most 5 subscriptions listed) and at most one
\* gray_charges insight (confidence 0.85, at most 3 items listed), each of
\* them if and only if its list of records is not empty.
C14_OneSummaryPerList ==
    detected.status = "ok" =>
        LET subs == EmittedOfType("subscription_summary")
            gray == EmittedOfType("gray_charges")
        IN  /\ Len(detected.insights) = Len(subs) + Len(gray)
            /\ Len(subs) = (IF detected.subscriptions # <<>> THEN 1 ELSE 0)
            /\ Len(gray) = (IF detected.gray_charges # <<>> THEN 1 ELSE 0)
            /\ \A i \in 1..Len(subs) :
                   /\ subs[i].confidence_score = 90
                   /\ Len(subs[i].message[3])
                          = Min(MaxListedSubscriptions, Len(detected.subscriptions))
            /\ \A i \in 1..Len(gray) :
                   /\ gray[i].confidence_score = 85
                   /\ Len(gray[i].message[3])
                          = Min(MaxListedGrayCharges, Len(detected.gray_charges))

\* a run that found more than 5 subscriptions and more than 3 gray charges
C14_Witness ==
    /\ EngineDetected
    /\ Len(detected.subscriptions) > MaxListedSubscriptions
    /\ Len(detected.gray_charges) > MaxListedGrayCharges
    /\ Len(detected.insights) = 2

----------------------------------------------------------------------------
(* The insight endpoints: POST /insights and PUT /insights/{id}/read *)

\* the bodies POST /insights is called with: the defaults, the type and score
\* of a summary of the engine, a score above 1, an empty title
InsightBodies ==
    { [title |-> "Pay rent", message |-> <<"due on the 1st">>, insight_type |-> "general",
       confidence_score |-> NullScore],
      [title |-> "Active Subscriptions Detected", message |-> <<"none">>,
       insight_type |-> "subscription_summary", confidence_score |-> 90],
      [title |-> "Pay rent", message |-> <<"due on the 1st">>, insight_type |-> "general",
       confidence_score |-> 150],
      [title |-> "", message |-> <<"due on the 1st">>, insight_type |-> "general",
       confidence_score |-> NullScore] }

\* InsightCreate: title of 1 to 200 characters, confidence_score None or in [0, 1]
ValidInsightCreate(data) ==
    /\ data.title # ""
    /\ data.confidence_score = NullScore \/ data.confidence_score \in 0..100

MaxStoredInsights == 3

\* POST /insights: 422 for a body the schema rejects, else a new row of the caller
CreateInsight(u, data) ==
    /\ Len(insights) < MaxStoredInsights
    /\ IF ValidInsightCreate(data)
       THEN /\ insights' = Append(insights,
                               Insight(u, data.title, data.message, data.insight_type,
                                       data.confidence_score))
            /\ insightResp' = 200
       ELSE /\ insightResp' = 422
            /\ UNCHANGED insights
    /\ UNCHANGED <<transactions, fitMemo, detected, subsResp, anomalyOut, runs, plaidResp,
                   incomeOut, goals, forecastOut, normOut, bankAccounts, plaidReqs>>

\* the row with every column but is_read reset to what POST /insights stores
\* by default
MarkedReadAndReset(row) ==
    [Insight(row.user_id, row.title, row.message, "general", NullScore)
        EXCEPT !.is_read = TRUE]

\* insight.is_read = True
MarkedRead(row) == [row EXCEPT !.is_read = TRUE]

\* the ids PUT /insights/{id}/read is called with
InsightIds == {1, 2, 9}

\* PUT /insights/{id}/read: 404 unless the row exists and belongs to the caller
MarkInsightRead(u, id) ==
    /\ IF id \in 1..Len(insights) /\ insights[id].user_id = u
       THEN /\ insights' = [insights EXCEPT ![id] = MarkedRead(insights[id])]
            /\ insightResp' = 200
       ELSE /\ insightResp' = 404
            /\ UNCHANGED insights
    /\ UNCHANGED <<transactions, fitMemo, detected, subsResp, anomalyOut, runs, plaidResp,
                   incomeOut, goals, forecastOut, normOut, bankAccounts, plaidReqs>>

InitStore ==
    /\ transactions \in { ShortLedger \o OtherUserRows }
    /\ insights = <<>>
    /\ fitMemo = [u \in Users |-> Idle]
    /\ detected = Idle
    /\ subsResp = NoResponse
    /\ anomalyOut = Idle
    /\ runs = NoRuns
    /\ plaidResp = 0
    /\ incomeOut = NoIncome
    /\ insightResp = 0
    /\ goals = <<>>
    /\ forecastOut = NoForecast
    /\ normOut = NoName
    /\ bankAccounts = <<>>
    /\ plaidReqs = NoPlaidRequests

NextStore ==
    \/ \E r \in Requests, u \in Users : StartGenerate(r, u)
    \/ \E r \in Requests : CommitGenerate(r)
    \/ \E u \in Users, data \in InsightBodies : CreateInsight(u, data)
    \/ \E u \in Users, id \in InsightIds : MarkInsightRead(u, id)

SpecStore == InitStore /\ [][NextStore]_vars

\* the rows a step appends to the Insight table
NewInsightRows == SubSeq(insights', Len(insights) + 1, Len(insights'))

\* the step adds no row, or it is the commit of a run of generate_user_insights
\* and adds the insights of that run
CreatedBySynthesizer ==
    Len(insights') > Len(insights) =>
        \E r \in Requests : /\ runs[r].pc = "computed"
                            /\ runs'[r].pc = "done"
                            /\ NewInsightRows = runs[r].out

\* the step adds one unread row and answers 200: a POST /insights
CreatedByCaller ==
    /\ Len(insights') = Len(insights) + 1
    /\ insightResp' = 200
    /\ runs' = runs
    /\ ~NewInsightRows[1].is_read

\* no row is removed, and a row that was stored differs at most in is_read
OnlyReadChanges ==
    /\ Len(insights') >= Len(insights)
    /\ \A i \in 1..Len(insights) :
           insights'[i] = [insights[i] EXCEPT !.is_read = insights'[i].is_read]

\* C15 (as stated): every Insight row is created by generate_user_insights,
\* and once a row is created no operation changes any of its fields but
\* is_read.
C15_OnlySynthesizerCreates == [][CreatedBySynthesizer /\ OnlyReadChanges]_vars

\* C15 (amended): every Insight row is created by generate_user_insights or
\* by POST /insights, and once a row is created no operation changes any of
\* its fields but is_read.
C15_OnlyReadChangesAfterCreation ==
    [][(CreatedBySynthesizer \/ CreatedByCaller) /\ OnlyReadChanges]_vars

\* the table holds a row of a committed run and a row of POST /insights, both
\* marked as read
C15_Witness ==
    /\ \E r \in Requests : Committed(r) /\ runs[r].out # <<>>
    /\ insightResp = 200
    /\ \E i, j \in 1..Len(insights) :
           /\ insights[i].is_read /\ insights[i].confidence_score # NullScore
           /\ insights[j].is_read /\ insights[j].confidence_score = NullScore

----------------------------------------------------------------------------
(* Histories that make the engine emit each type of insight *)

\* a purchase far above the others and a food delivery among one-off purchases
RichLedger ==
    <<Tx(1, "Grocer", 90000, 5, "GENERAL_MERCHANDISE", "acct1"),
      Tx(1, "Grocer", 4500, 6, "FOOD_DELIVERY", "acct1")>>
    \o Padding(1, MaxAnomalyRows)

TypeLedgers == { l \o OtherUserRows : l \in {ShortLedger, LongLedger, RichLedger} }

InitTypes ==
    /\ transactions \in TypeLedgers
    /\ insights = <<>>
    /\ fitMemo = [u \in Users |-> Idle]
    /\ detected = Idle
    /\ subsResp = NoResponse
    /\ anomalyOut = Idle
    /\ runs = NoRuns
    /\ plaidResp = 0
    /\ incomeOut = NoIncome
    /\ insightResp = 0
    /\ goals = <<>>
    /\ forecastOut = NoForecast
    /\ normOut = NoName
    /\ bankAccounts = <<>>
    /\ plaidReqs = NoPlaidRequests

SpecTypes == InitTypes /\ [][Next]_vars

\* the insight types of a list of insights
TypesOf(out) == {out[i].insight_type : i \in 1..Len(out)}

\* C16: every insight generate_user_insights emits, of whatever type, carries
\* a confidence_score that is not null and lies in [0, 1].
C16_ConfidenceOfEveryInsight ==
    /\ \A r \in Requests :
           Computed(r) =>
               \A i \in 1..Len(runs[r].out) :
                   /\ runs[r].out[i].confidence_score # NullScore
                   /\ runs[r].out[i].confidence_score \in 0..100
    /\ \A i \in 1..Len(insights) :
           /\ insights[i].confidence_score # NullScore
           /\ insights[i].confidence_score \in 0..100

\* a committed run that emitted a high-amount anomaly, the category analysis
\* and the delivery insight, next to a run that emitted other types
C16_Witness ==
    \E r1, r2 \in Requests :
        /\ Committed(r1)
        /\ {"anomaly_high_amount", "category_analysis", "delivery_spending"}
               \subseteq TypesOf(runs[r1].out)
        /\ Computed(r2)
        /\ TypesOf(runs[r2].out) # {}
        /\ TypesOf(runs[r2].out) # TypesOf(runs[r1].out)

----------------------------------------------------------------------------
(* Goal forecasting: GoalForecastingEngine and GET /goals/{goal_id}/forecast *)

\* target_date = None, next to the day numbers, which are not negative
NoDate == -1

\* a Goal row; amounts in cents
Goal(u, target, current, date) ==
    [user_id |-> u, target_amount |-> target, current_amount |-> current,
     target_date |-> date]

\* a select by id alone
GoalOfAnyUser(goal_id, u) == goal_id \in 1..Len(goals)

\* the select of the goal: a row with that id that belongs to the user
GoalFound(goal_id, u) ==
    goal_id \in 1..Len(goals) /\ goals[goal_id].user_id = u

\* the fraction num/den (den > 0) in lowest terms
Ratio(num, den) ==
    LET g == Gcd(Abs(num), den) IN <<num \div g, den \div g>>

\* amount_needed / max(1, days_remaining / 30), in cents
RequiredMonthlySavings(goal, today) ==
    LET days == goal.target_date - today
        needed == goal.target_amount - goal.current_amount
    IN  IF days <= 30 THEN Ratio(needed, 1) ELSE Ratio(30 * needed, days)

\* monthly_spending.mean() * 0.2, in cents
EstimatedSavingsCapacity(ms) == Ratio(SumSeq(ms), 5 * Len(ms))

\* a forecast that is on track whatever is required
OnTrackAlways(capacity, required) == TRUE

\* estimated_savings_capacity >= required_monthly_savings
OnTrack(capacity, required) == capacity[1] * required[2] >= required[1] * capacity[2]

\* the greatest common divisor of the first k monthly totals
RECURSIVE TotalsUnit(_, _)
TotalsUnit(ms, k) ==
    IF k = 0 THEN 0 ELSE Gcd(Abs(ms[k]), TotalsUnit(ms, k - 1))

\* min(0.95, max(0.3, 1 - std / mean)) in hundredths, rounded down; std is the
\* sample deviation (divisor n - 1).  The quotient of two numpy floats does not
\* raise: with mean 0 it is inf or nan and max(0.3, .) keeps 0.3; below 0 it
\* is negative or zero and the minimum is 0.95.  1 - std/mean >= c/100 is
\* 10000 * sum (n x - S)^2 <= (100 - c)^2 (n - 1) S^2 for totals x of sum S > 0,
\* taken in units of their greatest common divisor
ForecastConfidence(ms) ==
    LET n == Len(ms)
        total == SumSeq(ms)
        unit == IF TotalsUnit(ms, n) = 0 THEN 1 ELSE TotalsUnit(ms, n)
        x == [i \in 1..n |-> ms[i] \div unit]
        s == SumSeq(x)
        dev == SumSeq([i \in 1..n |-> (n * x[i] - s) * (n * x[i] - s)])
        reached == {c \in 30..95 : 10000 * dev <= (100 - c) * (100 - c) * (n - 1) * s * s}
    IN  IF total < 0 THEN 95
        ELSE IF total = 0 \/ reached = {} THEN 30
        ELSE CHOOSE c \in reached : \A d \in reached : d <= c

GoalNotFound == [kind |-> "error", error |-> "Goal not found"]

NotEnoughData ==
    [kind |-> "result", on_track |-> FALSE,
     message |-> "Not enough transaction data to make a forecast", confidence |-> 0]

NoTargetDate ==
    [kind |-> "result", on_track |-> FALSE, message |-> "Goal has no target date set",
     confidence |-> 0]

\* the result with the 5 keys; the amounts of the message are those of the
\* other keys
FullForecast(goal, ms, today) ==
    LET required == RequiredMonthlySavings(goal, today)
        capacity == EstimatedSavingsCapacity(ms)
        on_track == OnTrack(capacity, required)
    IN  [kind |-> "forecast", on_track |-> on_track,
         message |-> IF on_track THEN "Great news! At your current rate, you're on track"
                     ELSE "based on your spending patterns, you might fall short",
         required_monthly_savings |-> required,
         estimated_capacity |-> capacity,
         confidence |-> ForecastConfidence(ms)]

\* GoalForecastingEngine.forecast_goal_completion: the tables it reads and the
\* dict it returns
ForecastGoalCompletion(goal_id, u, today) ==
    LET txs == UserTransactions(u)
        ms == MonthlySpending(txs)
    IN  IF ~GoalFound(goal_id, u)
        THEN [reads |-> {"goal"}, result |-> GoalNotFound]
        ELSE IF txs = <<>>
        THEN [reads |-> {"goal", "transaction"}, result |-> NotEnoughData]
        ELSE IF goals[goal_id].target_date # NoDate /\ Len(ms) >= 2
        THEN [reads |-> {"goal", "transaction"},
              result |-> FullForecast(goals[goal_id], ms, today)]
        ELSE [reads |-> {"goal", "transaction"}, result |-> NoTargetDate]

\* GET /goals/{goal_id}/forecast on the day today
GetGoalForecast(u, goal_id, today) ==
    /\ forecastOut' = [call |-> "forecast", user |-> u, goal_id |-> goal_id, today |-> today]
                      @@ ForecastGoalCompletion(goal_id, u, today)
    /\ UNCHANGED <<transactions, insights, fitMemo, detected, subsResp, anomalyOut, runs,
                   plaidResp, incomeOut, insightResp, goals, normOut, bankAccounts, plaidReqs>>

\* the histories of the user whose goal is forecast: none; purchases within
\* January; $3000 of purchases in January and in February; $2000 and $4000;
\* the same $3000 next to a salary of $5000; purchases and refunds that cancel
\* within each month, and over the two months; purchases of $0.00 in three
\* categories
ForecastHistories ==
    { <<>>,
      <<Tx(1, "Grocer", 100000, 5, "FOOD_AND_DRINK", "acct1"),
        Tx(1, "Grocer", 200000, 20, "TRANSPORTATION", "acct1")>>,
      <<Tx(1, "Grocer", 100000, 5, "FOOD_AND_DRINK", "acct1"),
        Tx(1, "Grocer", 200000, 20, "TRANSPORTATION", "acct1"),
        Tx(1, "Grocer", 300000, 40, "FOOD_AND_DRINK", "acct1")>>,
      <<Tx(1, "Grocer", 200000, 5, "FOOD_AND_DRINK", "acct1"),
        Tx(1, "Grocer", 400000, 40, "FOOD_AND_DRINK", "acct1")>>,
      <<Tx(1, "Grocer", 300000, 5, "FOOD_AND_DRINK", "acct1"),
        Tx(1, "ACME Corp", -500000, 15, "INCOME", "acct1"),
        Tx(1, "Grocer", 300000, 40, "FOOD_AND_DRINK", "acct1"),
        Tx(1, "ACME Corp", -500000, 45, "INCOME", "acct1")>>,
      <<Tx(1, "Grocer", 100000, 5, "FOOD_AND_DRINK", "acct1"),
        Tx(1, "Grocer", -100000, 6, "FOOD_AND_DRINK", "acct1"),
        Tx(1, "Grocer", 100000, 40, "FOOD_AND_DRINK", "acct1"),
        Tx(1, "Grocer", -100000, 41, "FOOD_AND_DRINK", "acct1")>>,
      <<Tx(1, "Grocer", 100000, 5, "FOOD_AND_DRINK", "acct1"),
        Tx(1, "Grocer", -100000, 40, "FOOD_AND_DRINK", "acct1")>>,
      <<Tx(1, "Grocer", 0, 5, "FOOD_AND_DRINK", "acct1"),
        Tx(1, "Grocer", 0, 6, "TRANSPORTATION", "acct1"),
        Tx(1, "Grocer", 0, 40, "GENERAL_SERVICES", "acct1")>> }

TargetAmounts == {60000, 120000, 180000}

CurrentAmounts == {0, 60000}

\* no target date, and target dates around the days of the calls
TargetDates == {NoDate, 100, 130, 145, 160}

\* the days on which the forecast is asked for
Todays == {100, 115}

\* the goal of user 1 that is followed, and a goal of user 2
GoalTables ==
    { <<Goal(1, t, c, d), Goal(2, 50000, 0, 160)>> :
        t \in TargetAmounts, c \in CurrentAmounts, d \in TargetDates }

\* the goal ids of the calls: the two goals and an id without goal
GoalIds == {1, 2, 3}

InitForecast ==
    /\ transactions \in { h \o OtherUserRows : h \in ForecastHistories }
    /\ insights = <<>>
    /\ fitMemo = [u \in Users |-> Idle]
    /\ detected = Idle
    /\ subsResp = NoResponse
    /\ anomalyOut = Idle
    /\ runs = NoRuns
    /\ plaidResp = 0
    /\ incomeOut = NoIncome
    /\ insightResp = 0
    /\ goals \in GoalTables
    /\ forecastOut = NoForecast
    /\ normOut = NoName
    /\ bankAccounts = <<>>
    /\ plaidReqs = NoPlaidRequests

NextForecast ==
    \E u \in Users, goal_id \in GoalIds, today \in Todays : GetGoalForecast(u, goal_id, today)

SpecForecast == InitForecast /\ [][NextForecast]_vars

\* the last forecast was asked for a goal id that names no goal of the caller
ForeignOrMissingGoal(out) ==
    /\ out.call = "forecast"
    /\ \A i \in 1..Len(goals) : i = out.goal_id => goals[i].user_id # out.user

\* C17: forecast_goal_completion with a goal id that does not exist or that
\* belongs to another user returns {"error": "Goal not found"}: it raises
\* nothing, reads nothing but the Goal table and changes no state.
C17_GoalNotFound ==
    [][ForeignOrMissingGoal(forecastOut') =>
           /\ forecastOut'.result = [kind |-> "error", error |-> "Goal not found"]
           /\ forecastOut'.reads = {"goal"}
           /\ UNCHANGED <<transactions, insights, fitMemo, detected, subsResp, anomalyOut,
                          runs, plaidResp, incomeOut, insightResp, goals, normOut,
                          bankAccounts, plaidReqs>>]_vars

\* a user with transactions in two months asked for the goal of the other
\* user, which has a target date
C17_Witness ==
    /\ forecastOut.call = "forecast"
    /\ forecastOut.goal_id \in 1..Len(goals)
    /\ goals[forecastOut.goal_id].user_id # forecastOut.user
    /\ goals[forecastOut.goal_id].target_date # NoDate
    /\ Len(MonthlySpending(UserTransactions(forecastOut.user))) >= 2
    /\ forecastOut.result.kind = "error"

\* the last forecast was asked for a goal of the caller
OwnGoal(out) ==
    /\ out.call = "forecast"
    /\ out.goal_id \in 1..Len(goals)
    /\ goals[out.goal_id].user_id = out.user

\* C18: the "Goal has no target date set" result is returned only for a goal
\* without target date; for a goal with a target date the result is the full
\* forecast or the insufficient-data result.
C18_NoTargetDateResult ==
    OwnGoal(forecastOut) =>
        LET goal == goals[forecastOut.goal_id]
            result == forecastOut.result
        IN  /\ (result.kind = "result" /\ result.message = "Goal has no target date set")
                   => goal.target_date = NoDate
            /\ goal.target_date # NoDate
                   => \/ result.kind = "forecast"
                      \/ /\ result.kind = "result"
                         /\ result.message = "Not enough transaction data to make a forecast"

\* what user u spent in each month of the history: the total of the purchases
\* of the month, deposits and refunds left aside
MonthlySpend(u) ==
    LET txs == UserTransactions(u)
    IN  MonthlySpending([i \in 1..Len(txs) |->
                            [txs[i] EXCEPT !.price = Max(txs[i].price, 0)]])

\* C19: for a goal with a target date and a history that spans at least two
\* months, required_monthly_savings is (target - current) / max(1, months
\* remaining), estimated_capacity is 20% of the average monthly spend, and
\* on_track holds iff estimated_capacity >= required_monthly_savings.
C19_ForecastFormula ==
    (/\ OwnGoal(forecastOut)
     /\ goals[forecastOut.goal_id].target_date # NoDate
     /\ Len(MonthlySpending(UserTransactions(forecastOut.user))) >= 2)
    => LET goal == goals[forecastOut.goal_id]
           days == goal.target_date - forecastOut.today
           needed == goal.target_amount - goal.current_amount
           spend == MonthlySpend(forecastOut.user)
           result == forecastOut.result
       IN  /\ result.kind = "forecast"
           \* required * max(30, days) = needed * 30
           /\ result.required_monthly_savings[1] * Max(30, days)
                  = 30 * needed * result.required_monthly_savings[2]
           \* capacity * 5 * months = sum of the monthly spend
           /\ result.estimated_capacity[1] * 5 * Len(spend)
                  = SumSeq(spend) * result.estimated_capacity[2]
           /\ result.on_track
                  <=> (result.estimated_capacity[1] * result.required_monthly_savings[2]
                          >= result.required_monthly_savings[1] * result.estimated_capacity[2])

----------------------------------------------------------------------------
(* Histories with zero amounts and zero totals, seen by both engines *)

InitZero ==
    /\ transactions \in { h \o OtherUserRows : h \in ForecastHistories }
    /\ insights = <<>>
    /\ fitMemo = [u \in Users |-> Idle]
    /\ detected = Idle
    /\ subsResp = NoResponse
    /\ anomalyOut = Idle
    /\ runs = NoRuns
    /\ plaidResp = 0
    /\ incomeOut = NoIncome
    /\ insightResp = 0
    /\ goals \in { <<Goal(1, t, 0, 160), Goal(2, 50000, 0, 160)>> : t \in TargetAmounts }
    /\ forecastOut = NoForecast
    /\ normOut = NoName
    /\ bankAccounts = <<>>
    /\ plaidReqs = NoPlaidRequests

NextZero ==
    \/ \E r \in Requests, u \in Users : StartGenerate(r, u)
    \/ \E r \in Requests : CommitGenerate(r)
    \/ \E u \in Users, goal_id \in GoalIds, today \in Todays : GetGoalForecast(u, goal_id, today)

SpecZero == InitZero /\ [][NextZero]_vars

\* every row of the run's data has a merchant name and a category: nothing
\* but a division can make the engine raise
WellFormedRows(txs) ==
    \A i \in 1..Len(txs) : txs[i].merchant_name # None /\ txs[i].category_primary # None

\* C20: whatever the amounts, zero amounts and zero totals included, no run of
\* generate_user_insights and no call of forecast_goal_completion fails with
\* a division by zero; the insight concerned is left out.
C20_NoDivisionByZero ==
    /\ \A r \in Requests :
           (runs[r].pc # "idle" /\ WellFormedRows(runs[r].data)) => runs[r].status # 500
    /\ forecastOut.call = "forecast" => forecastOut.result.kind \in {"error", "result", "forecast"}

----------------------------------------------------------------------------
(* normalize_merchant_name of the first _analyze_income_patterns, character  *)
(* by character: a merchant name is a sequence of one-character strings      *)

Lowercase ==
    <<"a", "b", "c", "d", "e", "f", "g", "h", "i", "j", "k", "l", "m",
      "n", "o", "p", "q", "r", "s", "t", "u", "v", "w", "x", "y", "z">>

Uppercase ==
    <<"A", "B", "C", "D", "E", "F", "G", "H", "I", "J", "K", "L", "M",
      "N", "O", "P", "Q", "R", "S", "T", "U", "V", "W", "X", "Y", "Z">>

Digits == {"0", "1", "2", "3", "4", "5", "6", "7", "8", "9"}

\* \w of the regular expressions
IsWordChar(c) ==
    \/ \E i \in 1..26 : c = Lowercase[i] \/ c = Uppercase[i]
    \/ c \in Digits \cup {"_"}

\* \s of the regular expressions
IsSpaceChar(c) == c \in {" ", "\t"}

\* name.lower()
Lower(name) ==
    [i \in 1..Len(name) |->
        IF \E k \in 1..26 : name[i] = Uppercase[k]
        THEN Lowercase[CHOOSE k \in 1..26 : name[i] = Uppercase[k]]
        ELSE name[i]]

\* (inc|corp|llc|ltd|company|co|payroll|ppd|id|payment|pay), in the order of
\* the alternation
SuffixTokens ==
    << <<"i", "n", "c">>, <<"c", "o", "r", "p">>, <<"l", "l", "c">>, <<"l", "t", "d">>,
       <<"c", "o", "m", "p", "a", "n", "y">>, <<"c", "o">>,
       <<"p", "a", "y", "r", "o", "l", "l">>, <<"p", "p", "d">>, <<"i", "d">>,
       <<"p", "a", "y", "m", "e", "n", "t">>, <<"p", "a", "y">> >>

\* the token w stands at position j of s and a word boundary (\b) follows it
TokenAt(s, j, w) ==
    /\ j + Len(w) - 1 <= Len(s)
    /\ \A k \in 1..Len(w) : s[j + k - 1] = w[k]
    /\ j + Len(w) > Len(s) \/ ~IsWordChar(s[j + Len(w)])

\* the first position from i on that holds no white space
SpaceRunEnd(s, i) ==
    IF \E j \in i..Len(s) : ~IsSpaceChar(s[j])
    THEN CHOOSE j \in i..Len(s) :
             ~IsSpaceChar(s[j]) /\ \A k \in i..(j - 1) : IsSpaceChar(s[k])
    ELSE Len(s) + 1

\* the first alternative that \s+(...)\b matches at position i, 0 if none
SuffixMatch(s, i) ==
    IF ~IsSpaceChar(s[i]) THEN 0
    ELSE LET j == SpaceRunEnd(s, i)
             hits == { k \in 1..Len(SuffixTokens) : TokenAt(s, j, SuffixTokens[k]) }
         IN  IF hits = {} THEN 0 ELSE CHOOSE k \in hits : \A h \in hits : k <= h

\* re.sub(r'\s+(inc|...|pay)\b', '', name): the matches are taken from left
\* to right and do not overlap
RECURSIVE RemoveSuffixes(_, _)
RemoveSuffixes(s, i) ==
    IF i > Len(s) THEN <<>>
    ELSE LET k == SuffixMatch(s, i)
         IN  IF k = 0 THEN <<s[i]>> \o RemoveSuffixes(s, i + 1)
             ELSE RemoveSuffixes(s, SpaceRunEnd(s, i) + Len(SuffixTokens[k]))

\* re.sub(r'[^\w\s]', '', name)
RemovePunctuation(s) == SelectSeq(s, LAMBDA c : IsWordChar(c) \/ IsSpaceChar(c))

\* re.sub(r'\s+', ' ', name)
RECURSIVE CollapseSpaces(_, _)
CollapseSpaces(s, i) ==
    IF i > Len(s) THEN <<>>
    ELSE IF IsSpaceChar(s[i]) THEN <<" ">> \o CollapseSpaces(s, SpaceRunEnd(s, i))
    ELSE <<s[i]>> \o CollapseSpaces(s, i + 1)

\* str.strip()
Strip(s) ==
    LET kept == { i \in 1..Len(s) : ~IsSpaceChar(s[i]) }
    IN  IF kept = {} THEN <<>>
        ELSE LET lo == CHOOSE i \in kept : \A j \in kept : i <= j
                 hi == CHOOSE i \in kept : \A j \in kept : i >= j
             IN  [i \in 1..(hi - lo + 1) |-> s[lo + i - 1]]

UnknownName == <<"u", "n", "k", "n", "o", "w", "n">>

normalize_merchant_name(name) ==
    IF name = <<>> THEN UnknownName
    ELSE Strip(CollapseSpaces(RemovePunctuation(RemoveSuffixes(Lower(name), 1)), 1))

\* a call of normalize_merchant_name: on the merchant name first, then on
\* its own result
NormalizeName ==
    /\ normOut.call \in {"input", "once"}
    /\ normOut' = [call |-> IF normOut.call = "input" THEN "once" ELSE "twice",
                   name |-> normOut.result,
                   result |-> normalize_merchant_name(normOut.result)]
    /\ UNCHANGED <<transactions, insights, fitMemo, detected, subsResp, anomalyOut, runs,
                   plaidResp, incomeOut, insightResp, goals, forecastOut, bankAccounts,
                   plaidReqs>>

\* the characters of the merchant names: letters that spell a suffix token,
\* a capital, white space and punctuation
NameChars == {"a", "c", "o", "C", " ", "."}

MaxNameLen == 5

RECURSIVE NamesOfLen(_)
NamesOfLen(n) ==
    IF n = 0 THEN {<<>>}
    ELSE { Append(s, c) : s \in NamesOfLen(n - 1), c \in NameChars }

MerchantStrings == UNION { NamesOfLen(n) : n \in 0..MaxNameLen }

InitNames ==
    /\ transactions = <<>>
    /\ insights = <<>>
    /\ fitMemo = [u \in Users |-> Idle]
    /\ detected = Idle
    /\ subsResp = NoResponse
    /\ anomalyOut = Idle
    /\ runs = NoRuns
    /\ plaidResp = 0
    /\ incomeOut = NoIncome
    /\ insightResp = 0
    /\ goals = <<>>
    /\ forecastOut = NoForecast
    /\ normOut \in { [call |-> "input", name |-> x, result |-> x] : x \in MerchantStrings }
    /\ bankAccounts = <<>>
    /\ plaidReqs = NoPlaidRequests

NextNames == NormalizeName

SpecNames == InitNames /\ [][NextNames]_vars

\* C21: normalize_merchant_name is idempotent: called on one of its own
\* results (names with punctuation next to a suffix token and names made of
\* punctuation only included) it returns that result unchanged.
C21_NormalizeIdempotent ==
    normOut.call = "twice" => normOut.result = normOut.name

----------------------------------------------------------------------------
(* Rows without merchant name, seen by every detector *)

\* pairs of rows without merchant name: purchases, deposits, small deposits
MissingMerchantRows ==
    { <<Tx(1, None, 1200, 40, "GENERAL_SERVICES", "acct1"),
        Tx(1, None, 1200, 70, "GENERAL_SERVICES", "acct1")>>,
      <<Tx(1, None, -10000, 40, None, "acct1"), Tx(1, None, -10000, 70, None, "acct1")>>,
      <<Tx(1, None, -2000, 40, None, "acct1"), Tx(1, None, -2500, 70, None, "acct1")>>,
      <<Tx(1, None, 1200, 40, "GENERAL_SERVICES", "acct1"),
        Tx(1, None, -10000, 41, None, "acct1"),
        Tx(1, None, 1200, 70, "GENERAL_SERVICES", "acct1"),
        Tx(1, None, -10000, 71, None, "acct1")>> }

MissingLedgers ==
    { l \o m \o OtherUserRows :
        l \in {ShortLedger, LongLedger}, m \in {<<>>} \cup MissingMerchantRows }

InitMissing ==
    /\ transactions \in MissingLedgers
    /\ insights = <<>>
    /\ fitMemo = [u \in Users |-> Idle]
    /\ detected = Idle
    /\ subsResp = NoResponse
    /\ anomalyOut = Idle
    /\ runs = NoRuns
    /\ plaidResp = 0
    /\ incomeOut = NoIncome
    /\ insightResp = 0
    /\ goals = <<>>
    /\ forecastOut = NoForecast
    /\ normOut = NoName
    /\ bankAccounts = <<>>
    /\ plaidReqs = NoPlaidRequests

NextMissing ==
    \/ \E r \in Requests, u \in Users : StartGenerate(r, u)
    \/ \E r \in Requests : CommitGenerate(r)
    \/ \E u \in Users : GetSubscriptionAnalysis(u)
    \/ \E u \in Users : PostIncomeAnalysis(u)

SpecMissing == InitMissing /\ [][NextMissing]_vars

\* the rows with "Unknown" in the place of every missing merchant name
NamedUnknown(txs) ==
    [i \in 1..Len(txs) |->
        IF txs[i].merchant_name = None THEN [txs[i] EXCEPT !.merchant_name = "Unknown"]
        ELSE txs[i]]

\* C22: a row without merchant name is treated as a row of merchant
\* "Unknown" by every detector: generate_user_insights, GET
\* /insights/subscriptions and the income analysis complete and give the
\* result they give when the name "Unknown" is stored in its place.
C22_MissingMerchantIsUnknown ==
    /\ \A r \in Requests :
           (runs[r].pc # "idle" /\ ~CategoryRaises(runs[r].data)) =>
               /\ runs[r].status # 500
               /\ \E flagged \in Predictions(Len(runs[r].data)) :
                      runs[r].out =
                          EngineInsights(NamedUnknown(runs[r].data), runs[r].user, flagged)
    /\ subsResp.status # 0 =>
           subsResp = SubscriptionAnalysis(NamedUnknown(UserTransactions(subsResp.user)),
                                           subsResp.user)
    /\ incomeOut.call = "endpoint" =>
           incomeOut = IncomeAnalysis(NamedUnknown(UserTransactions(incomeOut.user)),
                                      incomeOut.user)

----------------------------------------------------------------------------
(* The same rows in different storage orders *)

\* two subscriptions, one-off purchases and two employers, block by block
\* in different orders; a short history
OrderLedgers ==
    LET netflix == SeriesTx(1, "Netflix", 2500, 10, <<30, 30>>, "acct1")
        spotify == SeriesTx(1, "Spotify", 2500, 3, <<7, 7, 7>>, "acct1")
        acme == SeriesTx(1, "ACME Corp", -500000, 5, <<30, 30>>, "acct1")
        client == SeriesTx(1, "Client Services LLC", -80000, 2, <<14, 14, 14>>, "acct2")
    IN  { netflix \o spotify \o Padding(1, MaxPad) \o acme \o client,
          client \o acme \o Padding(1, MaxPad) \o spotify \o netflix,
          Padding(1, MaxPad) \o acme \o netflix,
          acme \o ShortLedger }

InitOrder ==
    /\ transactions \in { l \o OtherUserRows : l \in OrderLedgers }
    /\ insights = <<>>
    /\ fitMemo = [u \in Users |-> Idle]
    /\ detected = Idle
    /\ subsResp = NoResponse
    /\ anomalyOut = Idle
    /\ runs = NoRuns
    /\ plaidResp = 0
    /\ incomeOut = NoIncome
    /\ insightResp = 0
    /\ goals = <<>>
    /\ forecastOut = NoForecast
    /\ normOut = NoName
    /\ bankAccounts = <<>>
    /\ plaidReqs = NoPlaidRequests

NextOrder ==
    \/ \E u \in Users : StartGenerate(1, u)
    \/ CommitGenerate(1)
    \/ \E u \in Users : CallDetectSubscriptions(u)
    \/ \E u \in Users : GetSubscriptionAnalysis(u)
    \/ \E u \in Users : PostIncomeAnalysis(u)

SpecOrder == InitOrder /\ [][NextOrder]_vars

\* type, message and confidence of the insights of a list, as a set
InsightSet(out) ==
    { <<out[i].insight_type, out[i].message, out[i].confidence_score>> : i \in 1..Len(out) }

\* the elements of a list, as a set
Elements(list) == { list[i] : i \in 1..Len(list) }

\* the rows the fit marked, at the places they have in the reversed list
Mirror(flagged, n) == { n + 1 - i : i \in flagged }

\* C23: the order of the transaction rows is irrelevant: on the rows in
\* reverse order (the outlier detector marking the same rows)
\* generate_user_insights gives insights of the same types, messages and
\* confidences, and the recurring-charge detectors and the income analysis
\* give the same records.
C23_OrderIrrelevant ==
    /\ \A r \in Requests :
           (runs[r].pc # "idle" /\ runs[r].status # 500) =>
               LET u == runs[r].user
                   n == Len(runs[r].data)
                   flagged == IF fitMemo[u].status = "fitted" THEN fitMemo[u].pred ELSE {}
               IN  InsightSet(runs[r].out) =
                       InsightSet(EngineInsights(Reverse(runs[r].data), u, Mirror(flagged, n)))
    /\ detected.status = "ok" =>
           LET other == DetectSubscriptions(Reverse(UserTransactions(detected.user)),
                                            detected.user)
           IN  /\ Elements(detected.subscriptions) = Elements(other.subscriptions)
               /\ Elements(detected.gray_charges) = Elements(other.gray_charges)
               /\ InsightSet(detected.insights) = InsightSet(other.insights)
    /\ subsResp.status = 200 =>
           LET other == SubscriptionAnalysis(Reverse(UserTransactions(subsResp.user)),
                                             subsResp.user)
           IN  /\ Elements(subsResp.subscriptions) = Elements(other.subscriptions)
               /\ Elements(subsResp.gray_charges) = Elements(other.gray_charges)
               /\ subsResp.total_monthly = other.total_monthly
    /\ (incomeOut.call = "endpoint" /\ incomeOut.status = 200) =>
           LET other == IncomeAnalysis(Reverse(UserTransactions(incomeOut.user)),
                                       incomeOut.user)
           IN  /\ Elements(incomeOut.income_streams) = Elements(other.income_streams)
               /\ incomeOut.total_monthly_income = other.total_monthly_income

----------------------------------------------------------------------------
(* One user's analyses next to another user's writes *)

\* the bodies POST /goals is called with
GoalBodies == { [target_amount |-> 50000, current_amount |-> 0, target_date |-> 160] }

MaxGoals == 2

\* POST /goals: a Goal row owned by the caller
CreateGoal(u, goal_data) ==
    /\ Len(goals) < MaxGoals
    /\ goals' = Append(goals, Goal(u, goal_data.target_amount, goal_data.current_amount,
                                   goal_data.target_date))
    /\ UNCHANGED <<transactions, insights, fitMemo, detected, subsResp, anomalyOut, runs,
                   plaidResp, incomeOut, insightResp, forecastOut, normOut, bankAccounts,
                   plaidReqs>>

\* what the other user sends to POST /plaid/transaction: the charge and the
\* salary the analysed user has too
OtherUserBodies ==
    PlaidBodies \cup
    { [transaction_id |-> "p2", merchant_name |-> "ACME Corp", amount |-> -500000,
       date |-> 95, primary |-> "INCOME", account_id |-> "acct1"] }

\* a short history, and one long enough for the outlier detector
IsolationLedgers ==
    { l \o SeriesTx(1, "ACME Corp", -500000, 5, <<30, 30>>, "acct1") \o OtherUserRows :
        l \in {ShortLedger,
               SeriesTx(1, "Netflix", 1500, 10, <<30, 30>>, "acct1")
               \o SeriesTx(1, "Spotify", 2500, 3, <<7, 7, 7>>, "acct1") \o Padding(1, 4)} }

InitIsolation ==
    /\ transactions \in IsolationLedgers
    /\ insights = <<>>
    /\ fitMemo = [u \in Users |-> Idle]
    /\ detected = Idle
    /\ subsResp = NoResponse
    /\ anomalyOut = Idle
    /\ runs = NoRuns
    /\ plaidResp = 0
    /\ incomeOut = NoIncome
    /\ insightResp = 0
    /\ goals = <<Goal(1, 600000, 0, 160)>>
    /\ forecastOut = NoForecast
    /\ normOut = NoName
    /\ bankAccounts = <<>>
    /\ plaidReqs = NoPlaidRequests

\* user 1 runs every analysis, user 2 stores transactions and goals
NextIsolation ==
    \/ \E r \in Requests : StartGenerate(r, 1)
    \/ \E r \in Requests : CommitGenerate(r)
    \/ GetSubscriptionAnalysis(1)
    \/ PostIncomeAnalysis(1)
    \/ \E goal_id \in {1, 2} : GetGoalForecast(1, goal_id, 100)
    \/ \E body \in OtherUserBodies : AddPlaidTransaction(2, body)
    \/ \E goal_data \in GoalBodies : CreateGoal(2, goal_data)

SpecIsolation == InitIsolation /\ [][NextIsolation]_vars

\* C24: what is computed for a user depends on the rows of that user only:
\* while the other user stores transactions and goals, every analysis
\* repeated for user 1 (subscription analysis, income analysis, goal
\* forecast, insight generation) returns what it returned before, and every
\* insight a run stores is owned by the user of the run.
C24_UserIsolation ==
    [][/\ (subsResp.status # 0 /\ subsResp'.user = subsResp.user) => subsResp' = subsResp
       /\ (incomeOut.call # "none" /\ incomeOut'.user = incomeOut.user) =>
              incomeOut' = incomeOut
       /\ (/\ forecastOut.call # "none"
           /\ forecastOut'.user = forecastOut.user
           /\ forecastOut'.goal_id = forecastOut.goal_id) => forecastOut' = forecastOut
       /\ (\A r \in Requests : runs'[r].pc # "idle" /\ runs'[r].user = 1) =>
              /\ runs'[1].data = runs'[2].data
              /\ runs'[1].out = runs'[2].out
       /\ \A r \in Requests :
              (runs[r].pc = "computed" /\ runs'[r].pc = "done") =>
                  /\ Len(insights') = Len(insights) + Len(runs[r].out)
                  /\ \A i \in (Len(insights) + 1)..Len(insights') :
                         insights'[i].user_id = runs[r].user]_vars

\* the other user has stored both transactions and a goal, and every
\* analysis of user 1 has returned
C24_Witness ==
    /\ Len(transactions) = Len(UserTransactions(1)) + Len(OtherUserRows) + 2
    /\ Len(goals) = 2 /\ goals[2].user_id = 2
    /\ subsResp.status = 200 /\ subsResp.subscriptions # <<>>
    /\ incomeOut.call = "endpoint" /\ incomeOut.income_streams # <<>>
    /\ forecastOut.call = "forecast" /\ forecastOut.result.kind = "forecast"
    /\ \A r \in Requests : runs[r].pc = "done" /\ runs[r].out # <<>>
    /\ insights # <<>>

----------------------------------------------------------------------------
(* Month-over-month trends *)

\* the purchases of a month: one purchase of the total, or two that add up to
\* it, next to a deposit
MonthRows(total, day) ==
    IF total = 0 THEN <<Tx(1, "ACME Corp", -200000, day, "INCOME", "acct1")>>
    ELSE IF total % 20000 = 0
    THEN <<Tx(1, "Grocer", total \div 2, day, "FOOD_AND_DRINK", "acct1"),
           Tx(1, "Grocer", total \div 2, day + 9, "FOOD_AND_DRINK", "acct1")>>
    ELSE <<Tx(1, "Grocer", total, day, "FOOD_AND_DRINK", "acct1")>>

\* monthly totals around both thresholds: $400 against $520 (130%), $520.01,
\* $320 (80%), $319.99; $501.40 against $651.82 (130%); $500.10 against
\* $400.08 (80%); months without purchases
TrendTotals ==
    { <<40000, 52000>>, <<40000, 52001>>, <<40000, 51999>>, <<40000, 32000>>,
      <<40000, 31999>>, <<40000, 32001>>, <<40000, 40000>>, <<40000, 100000>>,
      <<40000, 10000>>, <<50140, 65182>>, <<50010, 40008>>, <<40000, 0>>, <<0, 40000>>,
      <<0, 0>> }

\* January 2024 without purchases, or with $100 or $1000 of them, before
\* the two months of TrendTotals
TrendLedgers ==
    { MonthRows(first, 2) \o MonthRows(t[1], 33) \o MonthRows(t[2], 62) \o OtherUserRows :
        first \in {0, 10000, 100000}, t \in TrendTotals }

InitTrend ==
    /\ transactions \in TrendLedgers
    /\ insights = <<>>
    /\ fitMemo = [u \in Users |-> Idle]
    /\ detected = Idle
    /\ subsResp = NoResponse
    /\ anomalyOut = Idle
    /\ runs = NoRuns
    /\ plaidResp = 0
    /\ incomeOut = NoIncome
    /\ insightResp = 0
    /\ goals = <<>>
    /\ forecastOut = NoForecast
    /\ normOut = NoName
    /\ bankAccounts = <<>>
    /\ plaidReqs = NoPlaidRequests

NextTrend ==
    \/ \E r \in Requests, u \in Users : StartGenerate(r, u)
    \/ \E r \in Requests : CommitGenerate(r)

SpecTrend == InitTrend /\ [][NextTrend]_vars

\* the total of the purchases (price > 0) of every month that has any, by month
ExpenseTotals(txs) ==
    LET ex == SelectSeq(txs, LAMBDA t : t.price > 0)
        months == Ascending({ MonthOf(ex[i].date_of_transaction) : i \in 1..Len(ex) })
    IN  [k \in 1..Len(months) |->
            SumSeq([i \in 1..Len(ex) |->
                      IF MonthOf(ex[i].date_of_transaction) = months[k]
                      THEN ex[i].price ELSE 0])]

\* C25: with the expense totals of the months that have expenses, a
\* spending_increase insight is emitted if and only if the latest total is
\* more than 130% of the one before, a spending_decrease insight if and only
\* if it is less than 80% of it; never both, and none with fewer than two
\* such months.
C25_TrendThresholds ==
    \A r \in Requests :
        (runs[r].pc # "idle" /\ runs[r].status # 500) =>
            LET totals == ExpenseTotals(runs[r].data)
                n == Len(totals)
                increase == \E i \in 1..Len(runs[r].out) :
                                runs[r].out[i].insight_type = "spending_increase"
                decrease == \E i \in 1..Len(runs[r].out) :
                                runs[r].out[i].insight_type = "spending_decrease"
            IN  /\ increase <=> (n >= 2 /\ 10 * totals[n] > 13 * totals[n - 1])
                /\ decrease <=> (n >= 2 /\ 10 * totals[n] < 8 * totals[n - 1])
                /\ ~(increase /\ decrease)

----------------------------------------------------------------------------
(* Weekend against weekday spending *)

\* the purchases of one day: k purchases that add up to total
DayRows(day, total, k) ==
    [i \in 1..k |-> Tx(1, "Grocer", total \div k, day, "FOOD_AND_DRINK", "acct1")]

\* the first week of January 2024 (Monday the 1st to Sunday the 7th): the
\* same spend on each weekday, in wk purchases a day, and on each weekend
\* day, in we purchases a day
WeekRows(weekday, wk, weekend, we) ==
    DayRows(0, weekday, wk) \o DayRows(1, weekday, wk) \o DayRows(2, weekday, wk)
    \o DayRows(3, weekday, wk) \o DayRows(4, weekday, wk)
    \o DayRows(5, weekend, we) \o DayRows(6, weekend, we)

\* $50 a weekday against $90, $75, $75.30 and $60 a weekend day
WeekendLedgers ==
    { WeekRows(5000, wk, weekend, we) \o OtherUserRows :
        wk \in {1, 2}, weekend \in {9000, 7500, 7530, 6000}, we \in {1, 3} }

InitWeekend ==
    /\ transactions \in WeekendLedgers
    /\ insights = <<>>
    /\ fitMemo = [u \in Users |-> Idle]
    /\ detected = Idle
    /\ subsResp = NoResponse
    /\ anomalyOut = Idle
    /\ runs = NoRuns
    /\ plaidResp = 0
    /\ incomeOut = NoIncome
    /\ insightResp = 0
    /\ goals = <<>>
    /\ forecastOut = NoForecast
    /\ normOut = NoName
    /\ bankAccounts = <<>>
    /\ plaidReqs = NoPlaidRequests

SpecWeekend == InitWeekend /\ [][NextTrend]_vars

\* the purchases of the rows on weekend days (or on weekdays): their total
\* and the number of days they fall on
DaySpend(txs, weekend) ==
    LET rows == SelectSeq(txs, LAMBDA t : t.price > 0
                              /\ ((Weekday(t.date_of_transaction) \in {5, 6}) <=> weekend))
    IN  [total |-> SumSeq([i \in 1..Len(rows) |-> rows[i].price]),
         days |-> Cardinality({ rows[i].date_of_transaction : i \in 1..Len(rows) })]

\* C26: the weekend_spending insight compares spend per day: whenever the
\* spend per weekend day is more than 1.5 times the spend per weekday, the
\* insight is emitted and reports the ratio of the two ($90 a day against
\* $50 a day: 1.8), however many purchases make up a day.
C26_WeekendPerDay ==
    \A r \in Requests :
        (runs[r].pc # "idle" /\ runs[r].status # 500) =>
            LET weekend == DaySpend(runs[r].data, TRUE)
                weekday == DaySpend(runs[r].data, FALSE)
            IN  (/\ weekend.days > 0 /\ weekday.days > 0 /\ weekday.total > 0
                 /\ 2 * weekend.total * weekday.days > 3 * weekday.total * weekend.days) =>
                    \E i \in 1..Len(runs[r].out) :
                        /\ runs[r].out[i].insight_type = "weekend_spending"
                        /\ runs[r].out[i].message[1] =
                               RoundDiv(10 * weekend.total * weekday.days,
                                        weekday.total * weekend.days)

----------------------------------------------------------------------------
(* The deviation of the day gaps *)

\* lo <= mean <= hi and stddev < dev over the day gaps gs (two at least), the
\* stddev being the sample one, sqrt(sum (g - mean)^2 / (n - 1)); all of it
\* multiplied out by n
SampleRegularGaps(gs, lo, hi, dev) ==
    LET n == Len(gs)
        total == SumSeq(gs)
        spread == SumSeq([i \in 1..n |-> (n * gs[i] - total) * (n * gs[i] - total)])
    IN  /\ lo * n <= total
        /\ total <= hi * n
        /\ spread < dev * dev * n * n * (n - 1)

\* the label of the series under the sample deviation
SampleLabel(u, key) ==
    LET gs == Intervals(PatternDates(UserTransactions(u), key))
    IN  IF SampleRegularGaps(gs, 25, 35, 5) THEN "monthly"
        ELSE IF SampleRegularGaps(gs, 6, 8, 2) THEN "weekly"
        ELSE IF SampleRegularGaps(gs, 350, 380, 15) THEN "annual"
        ELSE "none"

LabelledBySampleDeviation(u, subs, gray) ==
    \A key \in SeriesKeys(u) :
        SeriesLen(u, key) >= 3 =>
            \A f \in {"monthly", "weekly", "annual"} :
                (ListedAs(subs, key, f) \/ ListedAs(gray, key, f)) <=> SampleLabel(u, key) = f

\* C27: the deviation compared with the expense-side bounds 5, 2 and 15 is
\* the sample standard deviation (divisor n - 1) of the day gaps: every
\* series with at least 2 gaps is labelled as the rules with that deviation
\* label it, by _detect_subscriptions and by GET /insights/subscriptions.
C27_SampleDeviation ==
    /\ EngineDetected =>
           LabelledBySampleDeviation(detected.user, detected.subscriptions,
                                     detected.gray_charges)
    /\ EndpointDetected =>
           LabelledBySampleDeviation(subsResp.user, subsResp.subscriptions,
                                     subsResp.gray_charges)

----------------------------------------------------------------------------
(* The Plaid handlers: POST /plaid/transactions, POST /plaid/transaction   *)
(* step by step, and POST /plaid/income                                     *)

BankAccount(u, token, active, id, name) ==
    [user_id |-> u, access_token |-> token, is_active |-> active,
     plaid_account_id |-> id, account_name |-> name]

\* select(BankAccount).where(user_id == ..., is_active == True,
\* access_token.isnot(None))
LinkedAccounts(u) ==
    SelectSeq(bankAccounts,
              LAMBDA a : a.user_id = u /\ a.is_active /\ a.access_token # None)

\* what plaid_client.get_transactions returns for an access token: the same
\* list at every call; the two accounts show one transaction in common
ProviderTransactions(token) ==
    CASE token = "tok1" ->
           <<[transaction_id |-> "p1", merchant_name |-> "Netflix", name |-> "NETFLIX.COM",
              amount |-> 2500, date |-> 100, primary |-> "GENERAL_SERVICES",
              account_id |-> "acct1"],
             [transaction_id |-> "p3", merchant_name |-> None, name |-> "ACME PAYROLL",
              amount |-> -500000, date |-> 95, primary |-> "INCOME",
              account_id |-> "acct1"]>>
      [] token = "tok2" ->
           <<[transaction_id |-> "p3", merchant_name |-> None, name |-> "ACME PAYROLL",
              amount |-> -500000, date |-> 95, primary |-> "INCOME",
              account_id |-> "acct2"]>>
      [] OTHER -> <<>>

\* the transactions of all linked accounts, account by account
RECURSIVE FetchedTransactions(_)
FetchedTransactions(accts) ==
    IF accts = <<>> THEN <<>>
    ELSE ProviderTransactions(Head(accts).access_token) \o FetchedTransactions(Tail(accts))

\* merchant_name or name or 'Unknown Merchant'
SyncMerchant(tx) ==
    IF tx.merchant_name # None THEN tx.merchant_name
    ELSE IF tx.name # None THEN tx.name
    ELSE "Unknown Merchant"

\* the Transaction row the sync builds
SyncRow(u, tx) ==
    [Tx(u, SyncMerchant(tx), tx.amount, tx.date, tx.primary, tx.account_id)
        EXCEPT !.plaid_transaction_id = tx.transaction_id]

\* select(Transaction).where(plaid_transaction_id == id).first() finds a row
\* among the stored ones
Stored(id) == \E i \in 1..Len(transactions) : transactions[i].plaid_transaction_id = id

\* a table without constraint
Unconstrained(rows) == FALSE

\* the unique constraint on plaid_transaction_id rejects the rows
ViolatesUnique(rows) ==
    \E i \in 1..Len(rows) :
        /\ rows[i].plaid_transaction_id # None
        /\ \/ Stored(rows[i].plaid_transaction_id)
           \/ \E j \in 1..Len(rows) :
                  j # i /\ rows[j].plaid_transaction_id = rows[i].plaid_transaction_id

\* generation after every sync
SyncedOrNot(synced) == TRUE

\* if len(synced_transactions) > 0
SyncedAny(synced) == Len(synced) > 0

\* leaves every variable but the Transaction table, the Insight table, the
\* fit of the outlier detector and the request slots alone
PlaidFrame ==
    UNCHANGED <<detected, subsResp, anomalyOut, runs, plaidResp, incomeOut, insightResp,
                goals, forecastOut, normOut, bankAccounts>>

\* POST /plaid/transactions, first step: the linked accounts of the user and
\* the transactions the provider has for them; without linked account the
\* HTTPException(400) is raised inside the try block, caught by `except
\* Exception` and answered as 500
StartSync(r, u) ==
    /\ plaidReqs[r].pc = "idle"
    /\ plaidReqs' = [plaidReqs EXCEPT ![r] =
          IF LinkedAccounts(u) = <<>>
          THEN [pc |-> "done", kind |-> "sync", user |-> u, status |-> 500,
                detail |-> "Failed to sync transactions: 400: No linked bank accounts found",
                todo |-> <<>>, pending |-> <<>>, insights_generated |-> 0]
          ELSE [pc |-> IF FetchedTransactions(LinkedAccounts(u)) = <<>>
                       THEN "commit" ELSE "scan",
                kind |-> "sync", user |-> u, status |-> 0, detail |-> "",
                todo |-> FetchedTransactions(LinkedAccounts(u)), pending |-> <<>>,
                insights_generated |-> 0]]
    /\ UNCHANGED <<transactions, insights, fitMemo>>
    /\ PlaidFrame

\* the next transaction of the provider: looked up by its id among the
\* stored rows and the rows of this session, and added when not found
ScanTransaction(r) ==
    /\ plaidReqs[r].pc = "scan"
    /\ LET tx == Head(plaidReqs[r].todo)
           pending == plaidReqs[r].pending
           existing == \/ Stored(tx.transaction_id)
                       \/ \E i \in 1..Len(pending) :
                              pending[i].plaid_transaction_id = tx.transaction_id
       IN  plaidReqs' = [plaidReqs EXCEPT
               ![r].todo = Tail(plaidReqs[r].todo),
               ![r].pending = IF existing THEN pending
                              ELSE Append(pending, SyncRow(plaidReqs[r].user, tx)),
               ![r].pc = IF Tail(plaidReqs[r].todo) = <<>> THEN "commit" ELSE "scan"]
    /\ UNCHANGED <<transactions, insights, fitMemo>>
    /\ PlaidFrame

\* session.commit(): the rows are stored, or the unique constraint raises and
\* the request is answered 500 with nothing stored
CommitSync(r) ==
    /\ plaidReqs[r].pc = "commit"
    /\ IF ViolatesUnique(plaidReqs[r].pending)
       THEN /\ plaidReqs' = [plaidReqs EXCEPT ![r].pc = "done", ![r].status = 500,
                                ![r].detail = "Failed to sync transactions"]
            /\ UNCHANGED transactions
       ELSE /\ transactions' = transactions \o plaidReqs[r].pending
            /\ plaidReqs' = [plaidReqs EXCEPT
                    ![r].pc = IF SyncedAny(plaidReqs[r].pending) THEN "generate" ELSE "done",
                    ![r].status = IF SyncedAny(plaidReqs[r].pending) THEN 0 ELSE 200]
    /\ UNCHANGED <<insights, fitMemo>>
    /\ PlaidFrame

\* the insights generated after a sync that stored transactions; a failure
\* of the engine is caught and leaves insights_generated at 0
GenerateAfterSync(r) ==
    LET u == plaidReqs[r].user
        txs == UserTransactions(u)
    IN  /\ plaidReqs[r].pc = "generate"
        /\ \E flagged \in Predictions(Len(txs)) :
              /\ IF Len(txs) >= MinAnomalyTransactions
                 THEN /\ FitPredict(fitMemo[u], Features(txs), flagged)
                      /\ fitMemo' = [fitMemo EXCEPT ![u] =
                                        [status |-> "fitted", data |-> Features(txs),
                                         pred |-> flagged]]
                 ELSE /\ flagged = {}
                      /\ UNCHANGED fitMemo
              /\ IF EngineRaises(txs)
                 THEN /\ UNCHANGED insights
                      /\ plaidReqs' = [plaidReqs EXCEPT ![r].pc = "done", ![r].status = 200]
                 ELSE /\ insights' = SessionAddAll(insights, EngineInsights(txs, u, flagged))
                      /\ plaidReqs' = [plaidReqs EXCEPT
                             ![r].pc = "done", ![r].status = 200,
                             ![r].insights_generated = Len(EngineInsights(txs, u, flagged))]
        /\ UNCHANGED transactions
        /\ PlaidFrame

\* POST /plaid/transaction, first step: the select by transaction id; 400
\* when a row is found
CheckPlaidTransaction(r, u, body) ==
    /\ plaidReqs[r].pc = "idle"
    /\ plaidReqs' = [plaidReqs EXCEPT ![r] =
          IF Stored(body.transaction_id)
          THEN [pc |-> "done", kind |-> "add", user |-> u, status |-> 400,
                detail |-> "Transaction already exists", body |-> body]
          ELSE [pc |-> "insert", kind |-> "add", user |-> u, status |-> 0, detail |-> "",
                body |-> body]]
    /\ UNCHANGED <<transactions, insights, fitMemo>>
    /\ PlaidFrame

\* second step: session.add and session.commit; the unique constraint raises
\* when the id was stored in between
InsertPlaidTransaction(r) ==
    LET body == plaidReqs[r].body
        row == [Tx(plaidReqs[r].user, body.merchant_name, body.amount, body.date,
                   body.primary, body.account_id)
                   EXCEPT !.plaid_transaction_id = body.transaction_id]
    IN  /\ plaidReqs[r].pc = "insert"
        /\ IF ViolatesUnique(<<row>>)
           THEN /\ plaidReqs' = [plaidReqs EXCEPT ![r].pc = "done", ![r].status = 500]
                /\ UNCHANGED transactions
           ELSE /\ plaidReqs' = [plaidReqs EXCEPT ![r].pc = "done", ![r].status = 200]
                /\ transactions' = Append(transactions, row)
        /\ UNCHANGED <<insights, fitMemo>>
        /\ PlaidFrame

\* the accounts handed to _analyze_income_patterns
AccountSet(accts) ==
    { [plaid_account_id |-> accts[i].plaid_account_id,
       account_name |-> accts[i].account_name] : i \in 1..Len(accts) }

\* POST /plaid/income on the rows of user u
PlaidIncome(txs, u, accts) ==
    LET dep == Deposits(txs)
        empty == [call |-> "plaid_income", status |-> 200, user |-> u, count |-> 0,
                  detail |-> "", income_streams |-> <<>>, trans_lists |-> <<>>,
                  total_monthly_income |-> 0, stream_count |-> 0]
    IN  IF accts = <<>>
        THEN [empty EXCEPT !.status = 500,
                 !.detail = "Failed to analyze income data: 400: No linked bank accounts found"]
        ELSE IF dep = <<>> THEN empty
        ELSE IF IncomeRaises(dep)
        THEN [empty EXCEPT !.status = 500, !.count = Len(dep),
                           !.detail = "Failed to analyze income data"]
        ELSE LET streams == AnalyzeIncomePatterns(dep, AccountSet(accts))
             IN  [empty EXCEPT !.count = Len(dep), !.income_streams = streams,
                     !.trans_lists = IncomeTransLists(dep, AccountSet(accts)),
                     !.total_monthly_income = TotalMonthlyIncome(streams),
                     !.stream_count = Len(streams)]

SyncPlaidIncome(u) ==
    /\ incomeOut' = PlaidIncome(UserTransactions(u), u, LinkedAccounts(u))
    /\ UNCHANGED <<transactions, insights, fitMemo, detected, subsResp, anomalyOut, runs,
                   plaidResp, insightResp, goals, forecastOut, normOut, bankAccounts,
                   plaidReqs>>

\* nobody linked; user 1 linked and user 2 with a disconnected account; both
\* linked; user 1 with an account without access token
AccountTables ==
    { <<>>,
      <<BankAccount(1, "tok1", TRUE, "acct1", "Checking"),
        BankAccount(2, "tok2", FALSE, "acct2", "Savings")>>,
      <<BankAccount(1, "tok1", TRUE, "acct1", "Checking"),
        BankAccount(2, "tok2", TRUE, "acct2", "Savings")>>,
      <<BankAccount(1, None, TRUE, "acct1", "Checking")>> }

PlaidLedgers ==
    { <<>>,
      ShortLedger \o SeriesTx(1, "ACME Corp", -500000, 5, <<30, 30>>, "acct1")
      \o OtherUserRows }

InitPlaid ==
    /\ transactions \in PlaidLedgers
    /\ insights = <<>>
    /\ fitMemo = [u \in Users |-> Idle]
    /\ detected = Idle
    /\ subsResp = NoResponse
    /\ anomalyOut = Idle
    /\ runs = NoRuns
    /\ plaidResp = 0
    /\ incomeOut = NoIncome
    /\ insightResp = 0
    /\ goals = <<>>
    /\ forecastOut = NoForecast
    /\ normOut = NoName
    /\ bankAccounts \in AccountTables
    /\ plaidReqs = NoPlaidRequests

NextPlaid ==
    \/ \E r \in Requests, u \in Users : StartSync(r, u)
    \/ \E r \in Requests : ScanTransaction(r)
    \/ \E r \in Requests : CommitSync(r)
    \/ \E r \in Requests : GenerateAfterSync(r)
    \/ \E r \in Requests, u \in Users, body \in PlaidBodies : CheckPlaidTransaction(r, u, body)
    \/ \E r \in Requests : InsertPlaidTransaction(r)
    \/ \E u \in Users : SyncPlaidIncome(u)

SpecPlaid == InitPlaid /\ [][NextPlaid]_vars

\* C28: a user without active linked bank account is answered by POST
\* /plaid/transactions and by POST /plaid/income with status 400 and detail
\* "No linked bank accounts found", and nothing is stored.
C28_NoLinkedAccount ==
    [][/\ \A r \in Requests, u \in Users :
              (plaidReqs[r].pc = "idle" /\ plaidReqs'[r].pc # "idle"
               /\ plaidReqs'[r].kind = "sync" /\ plaidReqs'[r].user = u
               /\ LinkedAccounts(u) = <<>>) =>
                  /\ plaidReqs'[r].pc = "done"
                  /\ plaidReqs'[r].status = 400
                  /\ plaidReqs'[r].detail = "No linked bank accounts found"
                  /\ transactions' = transactions
                  /\ insights' = insights
       /\ (incomeOut' # incomeOut /\ LinkedAccounts(incomeOut'.user) = <<>>) =>
              /\ incomeOut'.status = 400
              /\ incomeOut'.detail = "No linked bank accounts found"
              /\ transactions' = transactions
              /\ insights' = insights]_vars

\* no two stored transactions with the same non-null plaid_transaction_id
UniquePlaidIds ==
    \A i, j \in 1..Len(transactions) :
        (i # j /\ transactions[i].plaid_transaction_id # None) =>
            transactions[i].plaid_transaction_id # transactions[j].plaid_transaction_id

\* C29: under every interleaving of POST /plaid/transaction and POST
\* /plaid/transactions requests of any users, no two stored transactions
\* share a non-null plaid_transaction_id; and a POST /plaid/transaction whose
\* transaction id is found stored is rejected with 400 "Transaction already
\* exists" and leaves the transaction store unchanged.
C29_UniquePlaidIds ==
    /\ []UniquePlaidIds
    /\ [][\A r \in Requests :
              (/\ plaidReqs[r].pc = "idle"
               /\ plaidReqs'[r].pc # "idle"
               /\ plaidReqs'[r].kind = "add"
               /\ Stored(plaidReqs'[r].body.transaction_id)) =>
                  /\ plaidReqs'[r].pc = "done"
                  /\ plaidReqs'[r].status = 400
                  /\ plaidReqs'[r].detail = "Transaction already exists"
                  /\ transactions' = transactions]_vars

\* a sync has stored the transaction "p1" and a POST /plaid/transaction of
\* the same id by the other slot was rejected with 400
C29_Witness ==
    \E r1, r2 \in Requests :
        /\ plaidReqs[r1].pc = "done" /\ plaidReqs[r1].kind = "sync"
        /\ plaidReqs[r1].status = 200
        /\ \E i \in 1..Len(plaidReqs[r1].pending) :
               plaidReqs[r1].pending[i].plaid_transaction_id = "p1"
        /\ plaidReqs[r2].pc = "done" /\ plaidReqs[r2].kind = "add"
        /\ plaidReqs[r2].status = 400
        /\ plaidReqs[r2].body.transaction_id = "p1"
        /\ Cardinality({i \in 1..Len(transactions) :
                            transactions[i].plaid_transaction_id = "p1"}) = 1

\* two completed syncs of one user: one of them found nothing new
SecondSyncEmpty ==
    \A r1, r2 \in Requests :
        (/\ r1 # r2
         /\ plaidReqs[r1].pc = "done" /\ plaidReqs[r2].pc = "done"
         /\ plaidReqs[r1].kind = "sync" /\ plaidReqs[r2].kind = "sync"
         /\ plaidReqs[r1].user = plaidReqs[r2].user
         /\ plaidReqs[r1].status = 200 /\ plaidReqs[r2].status = 200) =>
            \/ plaidReqs[r1].pending = <<>> /\ plaidReqs[r1].insights_generated = 0
            \/ plaidReqs[r2].pending = <<>> /\ plaidReqs[r2].insights_generated = 0

\* C30: POST /plaid/transactions is idempotent against unchanged provider
\* data: a sync that finds no new transaction id stores no transaction, runs
\* no insight generation and persists no insight (insights_generated = 0);
\* and insights are generated within a sync only after that sync has
\* committed at least one new transaction.
C30_SyncIdempotent ==
    /\ []SecondSyncEmpty
    /\ [][/\ \A r \in Requests :
                 (/\ plaidReqs[r].pc = "commit"
                  /\ plaidReqs'[r].pc # "commit"
                  /\ plaidReqs[r].pending = <<>>) =>
                     /\ transactions' = transactions
                     /\ insights' = insights
                     /\ plaidReqs'[r].pc = "done"
                     /\ plaidReqs'[r].status = 200
                     /\ plaidReqs'[r].insights_generated = 0
          /\ insights' # insights =>
                 \E r \in Requests :
                     /\ plaidReqs[r].pc = "generate"
                     /\ plaidReqs'[r].pc = "done"
                     /\ plaidReqs[r].pending # <<>>
                     /\ \A i \in 1..Len(plaidReqs[r].pending) :
                            \E k \in 1..Len(transactions) :
                                transactions[k] = plaidReqs[r].pending[i]]_vars

\* a first sync of user 1 stored transactions and generated insights, and a
\* second sync of user 1 found nothing new and generated none
C30_Witness ==
    \E r1, r2 \in Requests :
        /\ plaidReqs[r1].pc = "done" /\ plaidReqs[r1].kind = "sync"
        /\ plaidReqs[r1].status = 200 /\ plaidReqs[r1].user = 1
        /\ plaidReqs[r1].pending # <<>>
        /\ plaidReqs[r1].insights_generated > 0
        /\ Len(insights) = plaidReqs[r1].insights_generated
        /\ plaidReqs[r2].pc = "done" /\ plaidReqs[r2].kind = "sync"
        /\ plaidReqs[r2].status = 200 /\ plaidReqs[r2].user = 1
        /\ plaidReqs[r2].pending = <<>>
        /\ plaidReqs[r2].insights_generated = 0

====
